---- MODULE Spec2Model ----
(***************************************************************************)
(* State-machine model of the Yellow Pages / Yelp scraping pipeline.       *)
(*                                                                         *)
(*   Spec         DataPipeline driven by a single caller (ScrapYelp.py)    *)
(*   SpecConc     DataPipeline shared by the thread pool of start_scrape   *)
(*   SpecScrape   scrape_search_results with fetch and write failures      *)
(*   SpecContact  procesar_negocios (WebsiteContactFinder.py), the fast    *)
(*                and the deep path each taken as one step                 *)
(*   SpecFast     procesar_negocios on one business, with                  *)
(*                buscar_primer_email_con_requests statement by statement  *)
(*   SpecDeep     procesar_negocios on one business, with                  *)
(*                buscar_datos_contacto_con_selenium statement by statement*)
(*   SpecMain     main of WebsiteContactFinder.py run from the command     *)
(*                line                                                     *)
(*   SpecAddress  parse_address_details_specific (Convert_json_to_csv.py)  *)
(*                applied to the addresses of a bounded set                *)
(*   SpecPipeline main of main_pipeline.py running the three scripts       *)
(*                                                                         *)
(* Python strings are sequences of one-character strings, so that strip,   *)
(* lower, startswith, split, urljoin and the email regular expression are  *)
(* computed and not assumed.                                               *)
(***************************************************************************)
EXTENDS Integers, Sequences, FiniteSets, TLC

(***************************************************************************)
(* Bounds of the model.                                                    *)
(***************************************************************************)
\* add_data calls made by the single caller of Spec
MaxSubmits == 4
\* close_pipeline calls made by the single caller of Spec
MaxCloses == 2
\* largest storage_queue_limit explored
MaxLimit == 3
\* worker threads of the pool of start_scrape (one page each)
NumWorkers == 2
\* cards on one result page
MaxCards == 2
\* largest retries argument of scrape_search_results explored
MaxRetries == 2
\* driver.get calls of one scrape_search_results call explored
MaxAttempts == 5
\* write errors injected into one run
MaxWriteErrors == 1
\* business records in the input of procesar_negocios
MaxBusinesses == 2
\* entries of COMMON_CONTACT_PATHS, from its head, that the deep path joins
\* to the base URL
MaxPaths == 3
\* nodes (anchors and runs of text) of a page the fast path fetches
MaxNodes == 2

(***************************************************************************)
(* Strings.                                                                *)
(***************************************************************************)
Range(s) == {s[i] : i \in 1..Len(s)}

Min(S) == CHOOSE x \in S : \A y \in S : x <= y

Max(S) == CHOOSE x \in S : \A y \in S : x >= y

\* str.isspace for the characters of the model's alphabet
IsSpace(c) == c \in {" ", "\t", "\n"}

\* str.strip(): leading and trailing whitespace removed
Strip(s) ==
    LET keep == {i \in 1..Len(s) : ~IsSpace(s[i])}
    IN  IF keep = {} THEN <<>> ELSE SubSeq(s, Min(keep), Max(keep))

\* str.lower() on the alphabet of the model
LowerChar(c) ==
    CASE c = "A" -> "a" [] c = "B" -> "b" [] c = "C" -> "c" [] c = "D" -> "d"
      [] c = "E" -> "e" [] c = "F" -> "f" [] c = "G" -> "g" [] c = "H" -> "h"
      [] c = "I" -> "i" [] c = "J" -> "j" [] c = "K" -> "k" [] c = "L" -> "l"
      [] c = "M" -> "m" [] c = "N" -> "n" [] c = "O" -> "o" [] c = "P" -> "p"
      [] c = "Q" -> "q" [] c = "R" -> "r" [] c = "S" -> "s" [] c = "T" -> "t"
      [] c = "U" -> "u" [] c = "V" -> "v" [] c = "W" -> "w" [] c = "X" -> "x"
      [] c = "Y" -> "y" [] c = "Z" -> "z"
      [] OTHER -> c

Lower(s) == [i \in 1..Len(s) |-> LowerChar(s[i])]

\* str.startswith(prefix)
StartsWith(s, prefix) ==
    /\ Len(s) >= Len(prefix)
    /\ SubSeq(s, 1, Len(prefix)) = prefix

\* Python's None, and a value that is no str (an int, a list): neither is a
\* sequence of characters
NoneValue == <<"<None>">>

NonStrValue == <<"<int>">>

IsStr(v) == v # NoneValue /\ v # NonStrValue

(***************************************************************************)
(* URLs (urllib.parse) on the strings of the model: URLs with no query and *)
(* no fragment.                                                            *)
(***************************************************************************)
Letters ==
    {"a", "b", "c", "d", "e", "f", "g", "h", "i", "j", "k", "l", "m", "n",
     "o", "p", "q", "r", "s", "t", "u", "v", "w", "x", "y", "z"}

\* str.find(c): the least index of c in s, 0 when there is none
FirstIndex(s, c) ==
    LET hits == {i \in 1..Len(s) : s[i] = c}
    IN  IF hits = {} THEN 0 ELSE Min(hits)

\* str.rfind(c): the greatest index of c in s, 0 when there is none
LastIndex(s, c) ==
    LET hits == {i \in 1..Len(s) : s[i] = c}
    IN  IF hits = {} THEN 0 ELSE Max(hits)

\* leading whitespace removed, as urlsplit does before it parses
LStrip(s) ==
    LET keep == {i \in 1..Len(s) : ~IsSpace(s[i])}
    IN  IF keep = {} THEN <<>> ELSE SubSeq(s, Min(keep), Len(s))

\* urlsplit(url): the lowercased scheme, the netloc after "//" and the path
urlsplit(url) ==
    LET u == LStrip(url)
        colon == FirstIndex(u, ":")
        has_scheme == /\ colon > 1
                      /\ \A i \in 1..(colon - 1) : LowerChar(u[i]) \in Letters
        scheme == IF has_scheme THEN Lower(SubSeq(u, 1, colon - 1)) ELSE <<>>
        rest == IF has_scheme THEN SubSeq(u, colon + 1, Len(u)) ELSE u
        has_netloc == StartsWith(rest, <<"/", "/">>)
        after == IF has_netloc THEN SubSeq(rest, 3, Len(rest)) ELSE rest
        slash == FirstIndex(after, "/")
    IN  [scheme |-> scheme,
         netloc |-> IF ~has_netloc THEN <<>>
                    ELSE IF slash = 0 THEN after
                    ELSE SubSeq(after, 1, slash - 1),
         path |-> IF ~has_netloc THEN rest
                  ELSE IF slash = 0 THEN <<>>
                  ELSE SubSeq(after, slash, Len(after))]

\* urlsplit raises ValueError ("Invalid IPv6 URL") on a netloc with one
\* square bracket and not the other
urlparse_raises(url) ==
    LET netloc == urlsplit(url).netloc
    IN  ("[" \in Range(netloc)) # ("]" \in Range(netloc))

\* urljoin(base, path) for a relative path of one segment: the last segment
\* of the base's path is replaced; an empty path gives the base unchanged
urljoin(base, path) ==
    IF base = <<>> THEN path
    ELSE IF path = <<>> THEN base
    ELSE LET parts == urlsplit(base)
             last == LastIndex(parts.path, "/")
             dir == IF last = 0 THEN <<"/">> ELSE SubSeq(parts.path, 1, last)
         IN  parts.scheme \o <<":", "/", "/">> \o parts.netloc \o dir \o path

(***************************************************************************)
(* EMAIL_REGEX (WebsiteContactFinder.py line 49),                          *)
(*   [a-zA-Z0-9._%+-]+@[a-zA-Z0-9.-]+\.[a-zA-Z]{2,}                        *)
(* matched as re does: leftmost start, each repetition as long as the rest *)
(* of the pattern allows.                                                  *)
(***************************************************************************)
Digits == {"0", "1", "2", "3", "4", "5", "6", "7", "8", "9"}

IsLetter(c) == LowerChar(c) \in Letters

\* [a-zA-Z0-9._%+-]
EmailLocalChar(c) ==
    IsLetter(c) \/ c \in Digits \/ c \in {".", "_", "%", "+", "-"}

\* [a-zA-Z0-9.-]
EmailDomainChar(c) == IsLetter(c) \/ c \in Digits \/ c \in {".", "-"}

\* the least index from i on whose character is no local-part character,
\* Len(s) + 1 when there is none
LocalRunEnd(s, i) ==
    Min({j \in i..Len(s) : ~EmailLocalChar(s[j])} \cup {Len(s) + 1})

\* the greatest index d with s[i..d] all domain characters, i - 1 when s[i]
\* is none
DomainRunLast(s, i) ==
    Min({j \in i..Len(s) : ~EmailDomainChar(s[j])} \cup {Len(s) + 1}) - 1

\* the greatest index d with s[i..d] all letters
LetterRunLast(s, i) ==
    Min({j \in i..Len(s) : ~IsLetter(s[j])} \cup {Len(s) + 1}) - 1

\* EMAIL_REGEX.match at index i: the index of the last character matched, 0
\* when there is no match. The local part runs up to an "@"; the domain
\* takes the longest stretch that still leaves a dot and two letters.
EmailMatchEnd(s, i) ==
    LET at == LocalRunEnd(s, i)
    IN  IF ~(at > i /\ at <= Len(s) /\ s[at] = "@") THEN 0
        ELSE LET dots == {q \in (at + 2)..DomainRunLast(s, at + 1) :
                              /\ s[q] = "."
                              /\ LetterRunLast(s, q + 1) >= q + 2}
             IN  IF dots = {} THEN 0 ELSE LetterRunLast(s, Max(dots) + 1)

\* EMAIL_REGEX.search(s): the matched text, NoneValue when nothing matches
EmailSearch(s) ==
    LET starts == {i \in 1..Len(s) : EmailMatchEnd(s, i) > 0}
    IN  IF starts = {} THEN NoneValue
        ELSE SubSeq(s, Min(starts), EmailMatchEnd(s, Min(starts)))

\* EMAIL_REGEX.fullmatch(s)
EmailFullMatch(s) ==
    LET at == LocalRunEnd(s, 1)
        dot == LastIndex(s, ".")
    IN  /\ at > 1 /\ at <= Len(s) /\ s[at] = "@"
        /\ dot >= at + 2
        /\ \A k \in (at + 1)..(dot - 1) : EmailDomainChar(s[k])
        /\ Len(s) >= dot + 2
        /\ \A k \in (dot + 1)..Len(s) : IsLetter(s[k])

\* lines 79-87
extraer_primer_email_valido_de_texto(texto) ==
    LET found == EmailSearch(texto)
    IN  IF found = NoneValue THEN NoneValue
        ELSE IF EmailFullMatch(Lower(found)) THEN Lower(found)
        ELSE NoneValue

(***************************************************************************)
(* SearchData (ScrapYelp.py, dataclass).                                   *)
(***************************************************************************)
\* check_string_fields on one field: "" becomes "No <field>", any other
\* string is stripped, a non-string is left alone
check_string_field(value, default) ==
    IF ~IsStr(value) THEN value
    ELSE IF value = <<>> THEN default
    ELSE Strip(value)

NoName == <<"N", "o", " ", "n", "a", "m", "e">>

NoUrl == <<"N", "o", " ", "u", "r", "l">>

\* SearchData(name=..., url=...) after __post_init__
SearchData(name, url) ==
    [name |-> check_string_field(name, NoName),
     url  |-> check_string_field(url, NoUrl)]

\* the records a caller passes to add_data: two share a name once stripped,
\* one has the default name
Inputs ==
    { SearchData(<<"a">>, <<"u">>),
      SearchData(<<" ", "a">>, <<"v", " ">>),
      SearchData(<<"b">>, <<"u">>),
      SearchData(<<>>, <<"w">>) }

(***************************************************************************)
(* The CSV file: a sequence of rows, each row the tuple of its cells.      *)
(***************************************************************************)
\* keys = [field.name for field in fields(data_to_save[0])]; writeheader()
HeaderRow == << <<"n", "a", "m", "e">>, <<"u", "r", "l">> >>

\* writer.writerow(asdict(item))
Row(item) == <<item.name, item.url>>

\* the rows of the items written last item first
Rows_reversed(items) ==
    [i \in 1..Len(items) |-> Row(items[Len(items) + 1 - i])]

\* lines 96-97: for item in data_to_save: writer.writerow(asdict(item))
Rows(items) == [i \in 1..Len(items) |-> Row(items[i])]

\* os.path.isfile(f) and os.path.getsize(f) > 0
file_exists(file) == Len(file) > 0

\* a file left by an earlier run of the same keyword (mode "a" appends to it)
OldFile == <<HeaderRow, Row(SearchData(<<"a">>, <<"o">>))>>

VARIABLES
    \* DataPipeline fields
    names_seen, storage_queue, storage_queue_limit, csv_file_open,
    \* the file named csv_filename
    csv_file,
    \* number of rows the file held when the run started
    csv_size_at_start,
    \* log of the calls made on the pipeline by the single caller
    calls,
    \* number of save_to_csv calls made from add_data
    auto_flushes,
    \* per worker thread of start_scrape: the statement it is at, the cards of
    \* its page, the card it submits next, and the locals of save_to_csv
    pc, cards, next_card, data_to_save, file_exists_local,
    \* scrape_search_results: its locals tries, success and the parameter
    \* retries; the statement it is at; the live browser sessions; the number
    \* of driver.get calls made; how the call ended; write errors injected
    tries, success, retries, scrape_pc, drivers, attempts, outcome, write_errors,
    \* number of driver.get calls that raised
    fetch_failures,
    \* procesar_negocios: the loaded input, the driver argument (TRUE when a
    \* session exists), the index of the business in hand, the statement it is
    \* at, the output list, and the log of session.get and of deep-path calls
    businesses, driver, business_idx, contact_pc, final_results,
    requests_log, selenium_log,
    \* buscar_datos_contacto_con_selenium: the candidate URLs its for loop has
    \* not reached yet, its locals email_final and facebook_links_final, the
    \* log of the pages driver.get was called on, and the value it returned
    urls_a_visitar, email_final, facebook_links_final, visits,
    selenium_results,
    \* main of WebsiteContactFinder.py: the file at the input path, the
    \* statement main is at, the file at the output path (<<>> while it has
    \* not been written) and the exit status of the process (-1 while it runs)
    input_file, main_pc, output_file, exit_code,
    \* buscar_primer_email_con_requests: whether session.get returned a
    \* response, and the page it holds
    respuesta,
    \* parse_address_details_specific: its argument and the dict it returned
    \* (NotParsed while it has not been called)
    full_address_str, address_details,
    \* main of main_pipeline.py: the statement it is at, the files under
    \* results/ named by the three output paths, what the last run_script call
    \* returned, the log of the scripts started with the state of their input
    \* file, and the exit status of the orchestrator (-1 while it runs)
    orchestrator_pc, results_dir, run_ok, stages_run, pipeline_exit

pipeline == <<names_seen, storage_queue, storage_queue_limit, csv_file_open>>

workerVars == <<pc, cards, next_card, data_to_save, file_exists_local>>

scrapeVars == <<tries, success, retries, scrape_pc, drivers, attempts, outcome,
                write_errors, fetch_failures>>

contactVars == <<businesses, driver, business_idx, contact_pc, final_results,
                 requests_log, selenium_log>>

deepVars == <<urls_a_visitar, email_final, facebook_links_final, visits,
             selenium_results>>

mainVars == <<input_file, main_pc, output_file, exit_code>>

fastVars == <<respuesta>>

addressVars == <<full_address_str, address_details>>

orchestratorVars == <<orchestrator_pc, results_dir, run_ok, stages_run,
                      pipeline_exit>>

stageVars == <<addressVars, orchestratorVars>>

\* what the DataPipeline and its callers never touch
outsidePipeline == <<contactVars, deepVars, mainVars, fastVars, stageVars>>

vars == <<names_seen, storage_queue, storage_queue_limit, csv_file_open,
          csv_file, csv_size_at_start, calls, auto_flushes,
          pc, cards, next_card, data_to_save, file_exists_local,
          tries, success, retries, scrape_pc, drivers, attempts, outcome,
          write_errors, fetch_failures,
          businesses, driver, business_idx, contact_pc, final_results,
          requests_log, selenium_log,
          urls_a_visitar, email_final, facebook_links_final, visits,
          selenium_results,
          input_file, main_pc, output_file, exit_code,
          respuesta,
          full_address_str, address_details,
          orchestrator_pc, results_dir, run_ok, stages_run, pipeline_exit>>

Workers == 1..NumWorkers

(***************************************************************************)
(* DataPipeline, one caller, no write error.                               *)
(***************************************************************************)
\* is_duplicate without its membership test
is_duplicate_never(seen, input_data) ==
    [dup |-> FALSE, names_seen |-> Append(seen, input_data.name)]

\* is_duplicate with the name appended before the membership test is acted on
is_duplicate_appends_first(seen, input_data) ==
    [dup |-> input_data.name \in Range(seen),
     names_seen |-> Append(seen, input_data.name)]

\* is_duplicate: the answer and names_seen after the call
is_duplicate(seen, input_data) ==
    IF input_data.name \in Range(seen)
    THEN [dup |-> TRUE, names_seen |-> seen]
    ELSE [dup |-> FALSE, names_seen |-> Append(seen, input_data.name)]

\* save_to_csv without self.storage_queue.clear()
save_to_csv_no_clear(queue, file) ==
    IF queue = <<>>
    THEN [storage_queue |-> <<>>, csv_file |-> file, csv_file_open |-> TRUE]
    ELSE [storage_queue |-> queue,
          csv_file |-> file
                       \o (IF file_exists(file) THEN <<>> ELSE <<HeaderRow>>)
                       \o Rows(queue),
          csv_file_open |-> FALSE]

\* save_to_csv run to its end without a write error: the queue, the file and
\* the flag it leaves
\* (with one caller the snapshot data_to_save is the queue as it was)
save_to_csv(queue, file) ==
    IF queue = <<>>
    THEN [storage_queue |-> <<>>, csv_file |-> file, csv_file_open |-> TRUE]
    ELSE [storage_queue |-> <<>>,
          csv_file |-> file
                       \o (IF file_exists(file) THEN <<>> ELSE <<HeaderRow>>)
                       \o Rows(queue),
          csv_file_open |-> FALSE]

\* the flush condition with > for >=
flush_due_strict(queue, limit, open) == Len(queue) > limit /\ open = FALSE

\* the flush condition of add_data
flush_due(queue, limit, open) == Len(queue) >= limit /\ open = FALSE

CallAdd(d) == [op |-> "add_data", arg |-> d]

CallClose == [op |-> "close_pipeline", arg |-> <<>>]

NumCalls(op) == Cardinality({i \in 1..Len(calls) : calls[i].op = op})

add_data(scraped_data) ==
    /\ NumCalls("add_data") < MaxSubmits
    /\ calls' = Append(calls, CallAdd(scraped_data))
    /\ LET r == is_duplicate(names_seen, scraped_data)
           q == Append(storage_queue, scraped_data)
           s == save_to_csv(q, csv_file)
       IN  /\ names_seen' = r.names_seen
           /\ IF r.dup
              THEN UNCHANGED <<storage_queue, csv_file_open, csv_file, auto_flushes>>
              ELSE IF flush_due(q, storage_queue_limit, csv_file_open)
              THEN /\ storage_queue' = s.storage_queue
                   /\ csv_file' = s.csv_file
                   /\ csv_file_open' = s.csv_file_open
                   /\ auto_flushes' = auto_flushes + 1
              ELSE /\ storage_queue' = q
                   /\ UNCHANGED <<csv_file_open, csv_file, auto_flushes>>
    /\ UNCHANGED <<storage_queue_limit, csv_size_at_start>>
    /\ UNCHANGED <<workerVars, scrapeVars, outsidePipeline>>

\* close_pipeline without its length test
close_flushes_always(queue) == TRUE

\* whether close_pipeline calls save_to_csv
close_flushes(queue) == Len(queue) > 0

close_pipeline ==
    /\ NumCalls("close_pipeline") < MaxCloses
    /\ calls' = Append(calls, CallClose)
    /\ LET s == save_to_csv(storage_queue, csv_file)
       IN  IF close_flushes(storage_queue)
           THEN /\ storage_queue' = s.storage_queue
                /\ csv_file' = s.csv_file
                /\ csv_file_open' = s.csv_file_open
           ELSE UNCHANGED <<storage_queue, csv_file, csv_file_open>>
    /\ UNCHANGED <<names_seen, storage_queue_limit, csv_size_at_start, auto_flushes>>
    /\ UNCHANGED <<workerVars, scrapeVars, outsidePipeline>>

\* DataPipeline(csv_filename=..., storage_queue_limit=...)
InitPipeline ==
    /\ names_seen = <<>>
    /\ storage_queue = <<>>
    /\ storage_queue_limit \in 1..MaxLimit
    /\ csv_file_open = FALSE
    /\ csv_file \in {<<>>, OldFile}
    /\ csv_size_at_start = Len(csv_file)
    /\ calls = <<>>
    /\ auto_flushes = 0

\* no DataPipeline is in use
NoPipeline ==
    /\ names_seen = <<>>
    /\ storage_queue = <<>>
    /\ storage_queue_limit = 1
    /\ csv_file_open = FALSE
    /\ csv_file = <<>>
    /\ csv_size_at_start = 0
    /\ calls = <<>>
    /\ auto_flushes = 0

\* no worker thread is running
NoWorkers ==
    /\ pc = [w \in Workers |-> "idle"]
    /\ cards = [w \in Workers |-> <<>>]
    /\ next_card = [w \in Workers |-> 1]
    /\ data_to_save = [w \in Workers |-> <<>>]
    /\ file_exists_local = [w \in Workers |-> FALSE]

\* scrape_search_results is not running
NoScrape ==
    /\ tries = 0
    /\ success = FALSE
    /\ retries = 0
    /\ scrape_pc = "none"
    /\ drivers = 0
    /\ attempts = 0
    /\ outcome = "none"
    /\ write_errors = 0
    /\ fetch_failures = 0

\* buscar_datos_contacto_con_selenium has not been called
NoDeep ==
    /\ urls_a_visitar = {}
    /\ email_final = NoneValue
    /\ facebook_links_final = {}
    /\ visits = <<>>
    /\ selenium_results = [email |-> NoneValue, facebook_links |-> <<>>]

\* main of WebsiteContactFinder.py is not running
NoMain ==
    /\ input_file = [kind |-> "none", content |-> <<>>]
    /\ main_pc = "none"
    /\ output_file = <<>>
    /\ exit_code = -1

\* session.get has not been called
NoFast == respuesta = [received |-> FALSE, doc |-> <<>>]

\* what address_details holds while parse_address_details_specific has not
\* returned
NotParsed == [street |-> NoneValue, unit |-> NoneValue, city |-> NoneValue]

\* parse_address_details_specific has not been called
NoAddress ==
    /\ full_address_str = NoneValue
    /\ address_details = NotParsed

\* main of main_pipeline.py is not running
NoOrchestrator ==
    /\ orchestrator_pc = "none"
    /\ results_dir = [f \in {"step1", "step2", "step3"} |-> "absent"]
    /\ run_ok = FALSE
    /\ stages_run = <<>>
    /\ pipeline_exit = -1

\* procesar_negocios is not running
NoContact ==
    /\ businesses = <<>>
    /\ driver = FALSE
    /\ business_idx = 1
    /\ contact_pc = "none"
    /\ final_results = <<>>
    /\ requests_log = <<>>
    /\ selenium_log = <<>>
    /\ NoDeep
    /\ NoMain
    /\ NoFast

Init ==
    /\ InitPipeline
    /\ NoWorkers
    /\ NoScrape
    /\ NoContact
    /\ NoAddress
    /\ NoOrchestrator

Next ==
    \/ \E d \in Inputs : add_data(d)
    \/ close_pipeline

Spec == Init /\ [][Next]_vars

(***************************************************************************)
(* The thread pool of start_scrape: every worker runs                      *)
(* scrape_search_results for one page and calls add_data for each card of  *)
(* it. DataPipeline takes no lock, so the statements of add_data,          *)
(* is_duplicate and save_to_csv of different workers interleave; a worker  *)
(* is at one of these statements:                                          *)
(*   idle         between two add_data calls (line 157)                    *)
(*   names_append self.names_seen.append(input_data.name)     (line 105)   *)
(*   queue_append self.storage_queue.append(scraped_data)     (line 110)   *)
(*   check_len    len(self.storage_queue) >= limit            (line 111)   *)
(*   check_open   self.csv_file_open == False                 (line 111)   *)
(*   set_open     self.csv_file_open = True                   (line 81)    *)
(*   snapshot     data_to_save.extend(self.storage_queue)     (line 83)    *)
(*   clear        self.storage_queue.clear()                  (line 84)    *)
(*   stat         file_exists = isfile(...) and getsize(...)  (line 89)    *)
(*   write        the with block: header and rows appended    (line 90-97) *)
(*   clear_open   self.csv_file_open = False                  (line 99)    *)
(***************************************************************************)
\* the cards a page can hold
PageCards ==
    { SearchData(<<"a">>, <<"u">>),
      SearchData(<<" ", "a">>, <<"v", " ">>),
      SearchData(<<"b">>, <<"u">>) }

Pages == UNION {[1..n -> PageCards] : n \in 0..MaxCards}

\* the record the worker is submitting
Card(w) == cards[w][next_card[w]]

Goto(w, label) ==
    /\ pc' = [pc EXCEPT ![w] = label]
    /\ UNCHANGED next_card

\* add_data returns to the card loop of scrape_search_results
Return(w) ==
    /\ pc' = [pc EXCEPT ![w] = "idle"]
    /\ next_card' = [next_card EXCEPT ![w] = @ + 1]

\* Finished(w): the worker's page is done, its future has a result
Finished(w) == pc[w] = "idle" /\ next_card[w] > Len(cards[w])

InSaveToCsv(w) ==
    pc[w] \in {"set_open", "snapshot", "clear", "stat", "write", "clear_open"}

\* line 157 and line 102: add_data is called, is_duplicate tests membership
t_is_duplicate(w) ==
    /\ pc[w] = "idle"
    /\ UNCHANGED <<scrapeVars, outsidePipeline>>
    /\ next_card[w] <= Len(cards[w])
    /\ calls' = Append(calls, CallAdd(Card(w)))
    /\ IF is_duplicate(names_seen, Card(w)).dup
       THEN Return(w)
       ELSE Goto(w, "names_append")
    /\ UNCHANGED <<pipeline, csv_file, csv_size_at_start, auto_flushes,
                   cards, data_to_save, file_exists_local>>

\* line 105
t_names_append(w) ==
    /\ pc[w] = "names_append"
    /\ UNCHANGED <<scrapeVars, outsidePipeline>>
    /\ names_seen' = Append(names_seen, Card(w).name)
    /\ Goto(w, "queue_append")
    /\ UNCHANGED <<storage_queue, storage_queue_limit, csv_file_open, csv_file,
                   csv_size_at_start, calls, auto_flushes,
                   cards, data_to_save, file_exists_local>>

\* line 110
t_queue_append(w) ==
    /\ pc[w] = "queue_append"
    /\ UNCHANGED <<scrapeVars, outsidePipeline>>
    /\ storage_queue' = Append(storage_queue, Card(w))
    /\ Goto(w, "check_len")
    /\ UNCHANGED <<names_seen, storage_queue_limit, csv_file_open, csv_file,
                   csv_size_at_start, calls, auto_flushes,
                   cards, data_to_save, file_exists_local>>

\* line 111, left operand of the and
t_check_len(w) ==
    /\ pc[w] = "check_len"
    /\ UNCHANGED <<scrapeVars, outsidePipeline>>
    /\ IF Len(storage_queue) >= storage_queue_limit
       THEN Goto(w, "check_open")
       ELSE Return(w)
    /\ UNCHANGED <<pipeline, csv_file, csv_size_at_start, calls, auto_flushes,
                   cards, data_to_save, file_exists_local>>

\* line 111, right operand, and the call of line 112
t_check_open(w) ==
    /\ pc[w] = "check_open"
    /\ UNCHANGED <<scrapeVars, outsidePipeline>>
    /\ IF csv_file_open = FALSE
       THEN Goto(w, "set_open") /\ auto_flushes' = auto_flushes + 1
       ELSE Return(w) /\ UNCHANGED auto_flushes
    /\ UNCHANGED <<pipeline, csv_file, csv_size_at_start, calls,
                   cards, data_to_save, file_exists_local>>

\* line 81
t_set_open(w) ==
    /\ pc[w] = "set_open"
    /\ UNCHANGED <<scrapeVars, outsidePipeline>>
    /\ csv_file_open' = TRUE
    /\ Goto(w, "snapshot")
    /\ UNCHANGED <<names_seen, storage_queue, storage_queue_limit, csv_file,
                   csv_size_at_start, calls, auto_flushes,
                   cards, data_to_save, file_exists_local>>

\* lines 82-83
t_snapshot(w) ==
    /\ pc[w] = "snapshot"
    /\ UNCHANGED <<scrapeVars, outsidePipeline>>
    /\ data_to_save' = [data_to_save EXCEPT ![w] = storage_queue]
    /\ Goto(w, "clear")
    /\ UNCHANGED <<pipeline, csv_file, csv_size_at_start, calls, auto_flushes,
                   cards, file_exists_local>>

\* lines 84-86: the queue is cleared; an empty snapshot returns at once and
\* leaves csv_file_open set
t_clear(w) ==
    /\ pc[w] = "clear"
    /\ UNCHANGED <<scrapeVars, outsidePipeline>>
    /\ storage_queue' = <<>>
    /\ IF data_to_save[w] = <<>>
       THEN Return(w)
       ELSE Goto(w, "stat")
    /\ UNCHANGED <<names_seen, storage_queue_limit, csv_file_open, csv_file,
                   csv_size_at_start, calls, auto_flushes,
                   cards, data_to_save, file_exists_local>>

\* line 89
t_stat(w) ==
    /\ pc[w] = "stat"
    /\ UNCHANGED <<scrapeVars, outsidePipeline>>
    /\ file_exists_local' = [file_exists_local EXCEPT ![w] = file_exists(csv_file)]
    /\ Goto(w, "write")
    /\ UNCHANGED <<pipeline, csv_file, csv_size_at_start, calls, auto_flushes,
                   cards, data_to_save>>

\* lines 90-97: the buffered rows reach the file, opened for append, when the
\* with block closes it
t_write(w) ==
    /\ pc[w] = "write"
    /\ UNCHANGED <<scrapeVars, outsidePipeline>>
    /\ csv_file' = csv_file
                   \o (IF file_exists_local[w] THEN <<>> ELSE <<HeaderRow>>)
                   \o Rows(data_to_save[w])
    /\ Goto(w, "clear_open")
    /\ UNCHANGED <<pipeline, csv_size_at_start, calls, auto_flushes,
                   cards, data_to_save, file_exists_local>>

\* line 99
t_clear_open(w) ==
    /\ pc[w] = "clear_open"
    /\ UNCHANGED <<scrapeVars, outsidePipeline>>
    /\ csv_file_open' = FALSE
    /\ Return(w)
    /\ UNCHANGED <<names_seen, storage_queue, storage_queue_limit, csv_file,
                   csv_size_at_start, calls, auto_flushes,
                   cards, data_to_save, file_exists_local>>

AllFinished == \A w \in Workers : Finished(w)

\* __main__, line 220: close_pipeline once start_scrape has returned
main_close ==
    /\ AllFinished
    /\ NumCalls("close_pipeline") = 0
    /\ close_pipeline

InitConc ==
    /\ InitPipeline
    /\ pc = [w \in Workers |-> "idle"]
    /\ cards \in [Workers -> Pages]
    /\ next_card = [w \in Workers |-> 1]
    /\ data_to_save = [w \in Workers |-> <<>>]
    /\ file_exists_local = [w \in Workers |-> FALSE]
    /\ NoScrape
    /\ NoContact
    /\ NoAddress
    /\ NoOrchestrator

NextConc ==
    \/ \E w \in Workers :
          \/ t_is_duplicate(w)
          \/ t_names_append(w)
          \/ t_queue_append(w)
          \/ t_check_len(w)
          \/ t_check_open(w)
          \/ t_set_open(w)
          \/ t_snapshot(w)
          \/ t_clear(w)
          \/ t_stat(w)
          \/ t_write(w)
          \/ t_clear_open(w)
    \/ main_close

SpecConc == InitConc /\ [][NextConc]_vars

(***************************************************************************)
(* scrape_search_results run by one thread (one page), with page fetches   *)
(* that can fail and file writes that can fail, then close_pipeline from   *)
(* __main__. The thread is at one of:                                      *)
(*   while       the loop test                               (line 133)    *)
(*   get         driver.get(url), find_elements              (lines 137-142)*)
(*   cards       the card loop, one add_data per card        (lines 145-159)*)
(*   except      the except clause                           (lines 164-166)*)
(*   finally     driver.quit()                               (line 169)    *)
(*   after_loop  if not success: raise                       (lines 171-172)*)
(*   done        the call has returned or raised                           *)
(***************************************************************************)
\* the thread that runs the page
Scraper == 1

\* what a failed write leaves in the file: nothing when open() raises, else
\* the header (if due) and the rows written before writerow raised
FailedWrite(file, data) ==
    {file} \cup
    { file \o (IF file_exists(file) THEN <<>> ELSE <<HeaderRow>>)
           \o Rows(SubSeq(data, 1, k)) : k \in 0..(Len(data) - 1) }

\* line 133, and line 134 when the loop is entered
s_while ==
    /\ scrape_pc = "while"
    /\ IF tries <= retries /\ ~success
       THEN /\ attempts < MaxAttempts
            /\ drivers' = drivers + 1
            /\ scrape_pc' = "get"
       ELSE /\ scrape_pc' = "after_loop"
            /\ UNCHANGED drivers
    /\ UNCHANGED <<pipeline, csv_file, csv_size_at_start, calls, auto_flushes,
                   workerVars, tries, success, retries, attempts, outcome,
                   write_errors, fetch_failures, outsidePipeline>>

\* line 135 raises (the browser died right after it started): the statement
\* is between the creation of the driver and the try block, so neither the
\* handler nor the finally clause runs and the exception leaves the function
\* with the session alive
s_implicitly_wait_raises ==
    /\ scrape_pc = "get"
    /\ outcome' = "raised"
    /\ scrape_pc' = "done"
    /\ UNCHANGED <<pipeline, csv_file, csv_size_at_start, calls, auto_flushes,
                   workerVars, tries, success, retries, drivers, attempts,
                   write_errors, fetch_failures, outsidePipeline>>

\* lines 137-143: the page is fetched and its cards are found
s_get_ok ==
    /\ scrape_pc = "get"
    /\ attempts' = attempts + 1
    /\ next_card' = [next_card EXCEPT ![Scraper] = 1]
    /\ scrape_pc' = "cards"
    /\ UNCHANGED <<pipeline, csv_file, csv_size_at_start, calls, auto_flushes,
                   pc, cards, data_to_save, file_exists_local,
                   tries, success, retries, drivers, outcome, write_errors,
                   fetch_failures, outsidePipeline>>

\* line 137 raises
s_get_fail ==
    /\ scrape_pc = "get"
    /\ attempts' = attempts + 1
    /\ fetch_failures' = fetch_failures + 1
    /\ scrape_pc' = "except"
    /\ UNCHANGED <<pipeline, csv_file, csv_size_at_start, calls, auto_flushes,
                   workerVars, tries, success, retries, drivers, outcome,
                   write_errors, outsidePipeline>>

\* line 157: add_data returns
s_add_data ==
    /\ scrape_pc = "cards"
    /\ next_card[Scraper] <= Len(cards[Scraper])
    /\ calls' = Append(calls, CallAdd(Card(Scraper)))
    /\ LET r == is_duplicate(names_seen, Card(Scraper))
           q == Append(storage_queue, Card(Scraper))
           s == save_to_csv(q, csv_file)
       IN  /\ names_seen' = r.names_seen
           /\ IF r.dup
              THEN UNCHANGED <<storage_queue, csv_file_open, csv_file, auto_flushes>>
              ELSE IF flush_due(q, storage_queue_limit, csv_file_open)
              THEN /\ storage_queue' = s.storage_queue
                   /\ csv_file' = s.csv_file
                   /\ csv_file_open' = s.csv_file_open
                   /\ auto_flushes' = auto_flushes + 1
              ELSE /\ storage_queue' = q
                   /\ UNCHANGED <<csv_file_open, csv_file, auto_flushes>>
    /\ next_card' = [next_card EXCEPT ![Scraper] = @ + 1]
    /\ UNCHANGED <<storage_queue_limit, csv_size_at_start,
                   pc, cards, data_to_save, file_exists_local,
                   scrapeVars, outsidePipeline>>

\* line 157: add_data reaches save_to_csv, whose open() or writerow() raises
\* (lines 90-97) after lines 81-84 have run; the exception leaves add_data
s_add_data_write_error ==
    /\ scrape_pc = "cards"
    /\ next_card[Scraper] <= Len(cards[Scraper])
    /\ write_errors < MaxWriteErrors
    /\ LET r == is_duplicate(names_seen, Card(Scraper))
           q == Append(storage_queue, Card(Scraper))
       IN  /\ ~r.dup
           /\ flush_due(q, storage_queue_limit, csv_file_open)
           /\ names_seen' = r.names_seen
           /\ storage_queue' = <<>>
           /\ csv_file_open' = TRUE
           /\ csv_file' \in FailedWrite(csv_file, q)
    /\ calls' = Append(calls, CallAdd(Card(Scraper)))
    /\ auto_flushes' = auto_flushes + 1
    /\ write_errors' = write_errors + 1
    /\ scrape_pc' = "except"
    /\ UNCHANGED <<storage_queue_limit, csv_size_at_start, workerVars,
                   tries, success, retries, drivers, attempts, outcome,
                   fetch_failures, outsidePipeline>>

\* line 161
s_success ==
    /\ scrape_pc = "cards"
    /\ next_card[Scraper] > Len(cards[Scraper])
    /\ success' = TRUE
    /\ scrape_pc' = "finally"
    /\ UNCHANGED <<pipeline, csv_file, csv_size_at_start, calls, auto_flushes,
                   workerVars, tries, retries, drivers, attempts, outcome,
                   write_errors, fetch_failures, outsidePipeline>>

\* lines 164-166: the error is logged; tries is not changed
s_except ==
    /\ scrape_pc = "except"
    /\ scrape_pc' = "finally"
    /\ UNCHANGED <<pipeline, csv_file, csv_size_at_start, calls, auto_flushes,
                   workerVars, tries, success, retries, drivers, attempts,
                   outcome, write_errors, fetch_failures, outsidePipeline>>

\* lines 168-169
s_finally ==
    /\ scrape_pc = "finally"
    /\ drivers' = drivers - 1
    /\ scrape_pc' = "while"
    /\ UNCHANGED <<pipeline, csv_file, csv_size_at_start, calls, auto_flushes,
                   workerVars, tries, success, retries, attempts, outcome,
                   write_errors, fetch_failures, outsidePipeline>>

\* lines 171-172, and future.result() of start_scrape (line 195), which
\* re-raises what the call raised
s_after_loop ==
    /\ scrape_pc = "after_loop"
    /\ outcome' = IF ~success THEN "raised" ELSE "returned"
    /\ scrape_pc' = "done"
    /\ UNCHANGED <<pipeline, csv_file, csv_size_at_start, calls, auto_flushes,
                   workerVars, tries, success, retries, drivers, attempts,
                   write_errors, fetch_failures, outsidePipeline>>

\* __main__, line 220, reached when start_scrape returned
s_main_close ==
    /\ outcome = "returned"
    /\ NumCalls("close_pipeline") = 0
    /\ close_pipeline

\* line 220 with a write error in save_to_csv: the exception leaves
\* close_pipeline and ends __main__
s_main_close_write_error ==
    /\ outcome = "returned"
    /\ NumCalls("close_pipeline") = 0
    /\ write_errors < MaxWriteErrors
    /\ close_flushes(storage_queue)
    /\ calls' = Append(calls, CallClose)
    /\ storage_queue' = <<>>
    /\ csv_file_open' = TRUE
    /\ csv_file' \in FailedWrite(csv_file, storage_queue)
    /\ write_errors' = write_errors + 1
    /\ outcome' = "raised"
    /\ UNCHANGED <<names_seen, storage_queue_limit, csv_size_at_start,
                   auto_flushes, workerVars, tries, success, retries,
                   scrape_pc, drivers, attempts, fetch_failures, outsidePipeline>>

InitScrape ==
    /\ InitPipeline
    /\ pc = [w \in Workers |-> "idle"]
    /\ \E page \in Pages :
          cards = [w \in Workers |-> IF w = Scraper THEN page ELSE <<>>]
    /\ next_card = [w \in Workers |-> 1]
    /\ data_to_save = [w \in Workers |-> <<>>]
    /\ file_exists_local = [w \in Workers |-> FALSE]
    /\ tries = 0
    /\ success = FALSE
    /\ retries \in 0..MaxRetries
    /\ scrape_pc = "while"
    /\ drivers = 0
    /\ attempts = 0
    /\ outcome = "running"
    /\ write_errors = 0
    /\ fetch_failures = 0
    /\ NoContact
    /\ NoAddress
    /\ NoOrchestrator

NextScrape ==
    \/ s_while
    \/ s_implicitly_wait_raises
    \/ s_get_ok
    \/ s_get_fail
    \/ s_add_data
    \/ s_add_data_write_error
    \/ s_success
    \/ s_except
    \/ s_finally
    \/ s_after_loop
    \/ s_main_close
    \/ s_main_close_write_error

SpecScrape == InitScrape /\ [][NextScrape]_vars

(***************************************************************************)
(* procesar_negocios (WebsiteContactFinder.py): one pass over the loaded   *)
(* businesses. It is at one of:                                            *)
(*   loop      the head of the for loop                      (line 204)    *)
(*   fast      buscar_primer_email_con_requests              (line 215)    *)
(*   deep      buscar_datos_contacto_con_selenium            (line 221)    *)
(*   returned  return final_results                          (line 243)    *)
(***************************************************************************)
HttpPrefix == <<"h", "t", "t", "p", ":", "/", "/">>

HttpsPrefix == <<"h", "t", "t", "p", "s", ":", "/", "/">>

\* "no encontrado" and "no encontrado (href vacío)"; the accented letter is
\* the one-character token "i_acute"
NotFoundSentinels ==
    { <<"n", "o", " ", "e", "n", "c", "o", "n", "t", "r", "a", "d", "o">>,
      <<"n", "o", " ", "e", "n", "c", "o", "n", "t", "r", "a", "d", "o", " ",
        "(", "h", "r", "e", "f", " ", "v", "a", "c", "i_acute", "o", ")">> }

\* is_valid_website without the scheme test
is_valid_website_any_scheme(url) ==
    IF url = NoneValue \/ url = <<>> \/ ~IsStr(url) THEN FALSE
    ELSE Strip(Lower(url)) \notin NotFoundSentinels

is_valid_website(url) ==
    IF url = NoneValue \/ url = <<>> \/ ~IsStr(url) THEN FALSE
    ELSE LET url_lower == Strip(Lower(url))
         IN  IF url_lower \in NotFoundSentinels THEN FALSE
             ELSE IF ~(StartsWith(url_lower, HttpPrefix)
                       \/ StartsWith(url_lower, HttpsPrefix)) THEN FALSE
             ELSE TRUE

\* website values of the input: what the crawler writes when it finds no
\* link ("No encontrado", YellowPagesCrawler.py line 81), null, a number,
\* and strings with and without a scheme
NotFoundWebsite ==
    <<"N", "o", " ", "e", "n", "c", "o", "n", "t", "r", "a", "d", "o">>

NotFoundHrefWebsite ==
    <<"N", "o", " ", "e", "n", "c", "o", "n", "t", "r", "a", "d", "o", " ",
      "(", "h", "r", "e", "f", " ", "v", "a", "c", "i_acute", "o", ")">>

InvalidWebsites ==
    { NoneValue, NonStrValue, <<>>, <<" ">>,
      NotFoundWebsite, NotFoundHrefWebsite,
      <<"w", "w", "w", ".", "x">>,
      <<"f", "t", "p", ":", "/", "/", "x">> }

\* a site whose address is one of its own contact pages
ContactPageWebsite ==
    <<"h", "t", "t", "p", ":", "/", "/", "x", "/", "c", "o", "n", "t", "a",
      "c", "t">>

\* an address with an opening square bracket and no closing one
BracketWebsite == <<"h", "t", "t", "p", ":", "/", "/", "[">>

UsableWebsites ==
    { <<"h", "t", "t", "p", ":", "/", "/", "x">>,
      <<"H", "T", "T", "P", "S", ":", "/", "/", "x">>,
      <<" ", "h", "t", "t", "p", ":", "/", "/", "x">>,
      ContactPageWebsite,
      BracketWebsite }

Websites == InvalidWebsites \cup UsableWebsites

\* business.get("website") is None when the key is absent
Business(website) == [nombre |-> <<"n">>, website |-> website]

BusinessLists ==
    UNION {[1..n -> {Business(v) : v \in Websites}] : n \in 0..MaxBusinesses}

AnEmail == <<"i", "@", "x", ".", "c", "o">>

AFacebookLink == <<"f", "b", "/", "x">>

\* what buscar_primer_email_con_requests returns: an email, or None when
\* the page holds none or the request raised
FastResults == {NoneValue, AnEmail}

\* what buscar_datos_contacto_con_selenium returns
DeepResults ==
    [email : {NoneValue, AnEmail}, facebook_links : {<<>>, <<AFacebookLink>>}]

\* Python truth of an email value or of a list
Truthy(v) == v # NoneValue /\ v # <<>>

\* lines 234-238
ResultEntry(business, final_email, final_fb_links, method_used) ==
    [nombre |-> business.nombre,
     website |-> business.website,
     email_encontrado |-> final_email,
     facebook_links_encontrados |-> final_fb_links,
     metodo_extraccion |-> method_used]

CurrentBusiness == businesses[business_idx]

\* lines 233-241: the entry is appended and the loop goes on
Record(final_email, final_fb_links, method_used) ==
    /\ final_results' = Append(final_results,
          ResultEntry(CurrentBusiness, final_email, final_fb_links, method_used))
    /\ business_idx' = business_idx + 1
    /\ contact_pc' = "loop"

\* what procesar_negocios and the deep path never touch
pipelineSide ==
    <<pipeline, csv_file, csv_size_at_start, calls, auto_flushes, workerVars,
      scrapeVars, mainVars, fastVars, stageVars>>

\* lines 204-213 and 230-231
c_validate ==
    /\ contact_pc = "loop"
    /\ business_idx <= Len(businesses)
    /\ IF is_valid_website(CurrentBusiness.website)
       THEN /\ contact_pc' = "fast"
            /\ UNCHANGED <<final_results, business_idx>>
       ELSE Record(NoneValue, <<>>, "Ninguno")
    /\ UNCHANGED <<businesses, driver, requests_log, selenium_log, deepVars,
                   pipelineSide>>

\* session.get raises InvalidURL, a RequestException, on an address it
\* cannot parse: line 128 catches it and the fast path returns None
FastResultsFor(url) ==
    IF urlparse_raises(url) THEN {NoneValue} ELSE FastResults

\* line 216 with the fast path's email never taken as found
fast_found_never(final_email) == FALSE

\* line 216: if final_email
fast_found(final_email) == Truthy(final_email)

\* lines 215-220 and 228-229: what procesar_negocios does with the value the
\* fast path returned
AfterFast(final_email) ==
    /\ requests_log' = Append(requests_log,
          [idx |-> business_idx, url |-> CurrentBusiness.website,
           email |-> final_email])
    /\ IF fast_found(final_email)
       THEN Record(final_email, <<>>, "Requests (Email)")
       ELSE IF driver
       THEN /\ contact_pc' = "deep"
            /\ UNCHANGED <<final_results, business_idx>>
       ELSE Record(final_email, <<>>, "Ninguno")

\* lines 215-220 and 228-229: one call of buscar_primer_email_con_requests,
\* which makes one session.get (line 108) and returns an email or None
c_fast ==
    /\ contact_pc = "fast"
    /\ \E final_email \in FastResultsFor(CurrentBusiness.website) :
          AfterFast(final_email)
    /\ UNCHANGED <<businesses, driver, selenium_log, deepVars, pipelineSide>>

\* lines 222-227 with the links kept in the record next to the email
RecordDeep_keeps_links(results) ==
    IF Truthy(results.email)
    THEN Record(results.email, results.facebook_links, "Selenium (Email)")
    ELSE IF Truthy(results.facebook_links)
    THEN Record(NoneValue, results.facebook_links, "Selenium (FB Links)")
    ELSE Record(NoneValue, <<>>, "Ninguno")

\* lines 222-227 and 233-241: what procesar_negocios records from the value
\* the deep path returned
RecordDeep(results) ==
    IF Truthy(results.email)
    THEN Record(results.email, <<>>, "Selenium (Email)")
    ELSE IF Truthy(results.facebook_links)
    THEN Record(NoneValue, results.facebook_links, "Selenium (FB Links)")
    ELSE Record(NoneValue, <<>>, "Ninguno")

\* lines 221-227, the call of buscar_datos_contacto_con_selenium taken as
\* one step: it returns some email or none and some list of links, or
\* urlparse (line 143) raises and the exception leaves procesar_negocios
c_deep ==
    /\ contact_pc = "deep"
    /\ IF urlparse_raises(CurrentBusiness.website)
       THEN /\ contact_pc' = "raised"
            /\ UNCHANGED <<selenium_log, selenium_results, final_results,
                           business_idx>>
       ELSE /\ selenium_log' = Append(selenium_log,
                  [idx |-> business_idx, url |-> CurrentBusiness.website])
            /\ \E results \in DeepResults :
                  /\ selenium_results' = results
                  /\ RecordDeep(results)
    /\ UNCHANGED <<businesses, driver, requests_log, urls_a_visitar,
                   email_final, facebook_links_final, visits, pipelineSide>>

\* line 112: the page was fetched and BeautifulSoup raises on markup its
\* parser rejects; this is no RequestException, so the handler of line 128
\* lets it through and it leaves procesar_negocios
c_fast_raise ==
    /\ contact_pc = "fast"
    /\ ~urlparse_raises(CurrentBusiness.website)
    /\ requests_log' = Append(requests_log,
          [idx |-> business_idx, url |-> CurrentBusiness.website,
           email |-> NoneValue])
    /\ contact_pc' = "raised"
    /\ UNCHANGED <<businesses, driver, business_idx, final_results,
                   selenium_log, deepVars, pipelineSide>>

(***************************************************************************)
(* buscar_datos_contacto_con_selenium statement by statement, called from  *)
(* line 221 of procesar_negocios. contact_pc is at one of:                 *)
(*   deep           the call is entered                      (line 137)    *)
(*   deep_for       the head of the for loop                 (line 147)    *)
(*   deep_returned  the call has returned                    (line 222)    *)
(*   raised         an exception has left procesar_negocios                *)
(***************************************************************************)
COMMON_CONTACT_PATHS ==
    << <<>>,
       <<"c", "o", "n", "t", "a", "c", "t">>,
       <<"c", "o", "n", "t", "a", "c", "t", "o">>,
       <<"c", "o", "n", "t", "a", "c", "t", "-", "u", "s">>,
       <<"c", "o", "n", "t", "a", "c", "t", "u", "s">>,
       <<"a", "b", "o", "u", "t">>,
       <<"a", "b", "o", "u", "t", "-", "u", "s">>,
       <<"n", "o", "s", "o", "t", "r", "o", "s">>,
       <<"i", "m", "p", "r", "e", "s", "s", "u", "m">>,
       <<"l", "e", "g", "a", "l">>,
       <<"a", "v", "i", "s", "o", "-", "l", "e", "g", "a", "l">>,
       <<"c", "o", "n", "t", "a", "c", "t", "e", "n", "o", "s">> >>

ContactPaths == SubSeq(COMMON_CONTACT_PATHS, 1, MaxPaths)

\* line 143
WithScheme(base_url) ==
    IF urlsplit(base_url).scheme = <<>>
    THEN <<"h", "t", "t", "p", ":", "/", "/">> \o base_url
    ELSE base_url

\* lines 142-145: a set, so equal URLs are held once and the order the for
\* loop of line 147 meets them in is the set's, not the list's
CandidateUrls(base_url) ==
    {urljoin(WithScheme(base_url), ContactPaths[i]) : i \in 1..Len(ContactPaths)}

AnotherEmail == <<"j", "@", "x", ".", "c", "o">>

AnotherFacebookLink == <<"f", "b", "/", "y">>

\* what one visit gives: the email _extraer_primer_email_valido_de_texto
\* finds in page_source and the links buscar_facebook_links_en_html finds,
\* or an exception from driver.get, the wait or the parsing
Page(found_email, found_links) ==
    [error |-> FALSE, email |-> found_email, links |-> found_links]

PageError == [error |-> TRUE, email |-> NoneValue, links |-> {}]

PageOutcomes ==
    { PageError,
      Page(NoneValue, {}),
      Page(AnEmail, {}),
      Page(AnotherEmail, {AFacebookLink}),
      Page(NoneValue, {AFacebookLink}),
      Page(NoneValue, {AnotherFacebookLink}) }

\* visit_page with a page error discarding what earlier pages gave
visit_page_error_resets(found_email, found_links, page) ==
    IF page.error
    THEN [email_final |-> NoneValue, facebook_links_final |-> {}]
    ELSE IF Truthy(page.email)
    THEN [email_final |-> page.email, facebook_links_final |-> found_links]
    ELSE [email_final |-> found_email,
          facebook_links_final |-> found_links \cup page.links]

\* visit_page keeping only the links of the page in hand
visit_page_last_links(found_email, found_links, page) ==
    IF page.error
    THEN [email_final |-> found_email, facebook_links_final |-> found_links]
    ELSE IF Truthy(page.email)
    THEN [email_final |-> page.email, facebook_links_final |-> found_links]
    ELSE [email_final |-> found_email, facebook_links_final |-> page.links]

\* lines 153-173, the body of the for loop: the new values of email_final
\* and facebook_links_final after one visit
visit_page(found_email, found_links, page) ==
    IF page.error
    THEN [email_final |-> found_email, facebook_links_final |-> found_links]
    ELSE IF Truthy(page.email)
    THEN [email_final |-> page.email, facebook_links_final |-> found_links]
    ELSE [email_final |-> found_email,
          facebook_links_final |-> found_links \cup page.links]

\* line 149 never taken
loop_breaks_never(found_email) == FALSE

\* lines 149-150: if email_final: break
loop_breaks(found_email) == Truthy(found_email)

\* list(a_set): the elements once each, in an order the set decides
ListsOf(S) ==
    {l \in [1..Cardinality(S) -> S] : Range(l) = S}

\* lines 137-145
d_build ==
    /\ contact_pc = "deep"
    /\ IF urlparse_raises(CurrentBusiness.website)
       THEN /\ contact_pc' = "raised"
            /\ UNCHANGED <<selenium_log, urls_a_visitar, email_final,
                           facebook_links_final, visits>>
       ELSE /\ selenium_log' = Append(selenium_log,
                  [idx |-> business_idx, url |-> CurrentBusiness.website])
            /\ urls_a_visitar' = CandidateUrls(CurrentBusiness.website)
            /\ email_final' = NoneValue
            /\ facebook_links_final' = {}
            /\ visits' = <<>>
            /\ contact_pc' = "deep_for"
    /\ UNCHANGED <<businesses, driver, business_idx, final_results,
                   requests_log, selenium_results, pipelineSide>>

\* lines 147-173: one turn of the for loop on the next URL of the set
d_visit ==
    /\ contact_pc = "deep_for"
    /\ urls_a_visitar # {}
    /\ ~loop_breaks(email_final)
    /\ \E next_url \in urls_a_visitar, page \in PageOutcomes :
          LET after == visit_page(email_final, facebook_links_final, page)
          IN  /\ urls_a_visitar' = urls_a_visitar \ {next_url}
              /\ visits' = Append(visits, [url |-> next_url, page |-> page])
              /\ email_final' = after.email_final
              /\ facebook_links_final' = after.facebook_links_final
    /\ UNCHANGED <<businesses, driver, business_idx, contact_pc,
                   final_results, requests_log, selenium_log,
                   selenium_results, pipelineSide>>

\* lines 147-150 and 175: the loop is over or broken and the call returns
d_return ==
    /\ contact_pc = "deep_for"
    /\ urls_a_visitar = {} \/ loop_breaks(email_final)
    /\ \E links \in ListsOf(facebook_links_final) :
          selenium_results' = [email |-> email_final, facebook_links |-> links]
    /\ contact_pc' = "deep_returned"
    /\ UNCHANGED <<businesses, driver, business_idx, final_results,
                   requests_log, selenium_log, urls_a_visitar, email_final,
                   facebook_links_final, visits, pipelineSide>>

\* lines 222-227 and 233-241
d_record ==
    /\ contact_pc = "deep_returned"
    /\ RecordDeep(selenium_results)
    /\ UNCHANGED <<businesses, driver, requests_log, selenium_log,
                   deepVars, pipelineSide>>

\* line 243
c_return ==
    /\ contact_pc = "loop"
    /\ business_idx > Len(businesses)
    /\ contact_pc' = "returned"
    /\ UNCHANGED <<businesses, driver, business_idx, final_results,
                   requests_log, selenium_log, deepVars, pipelineSide>>

InitContact ==
    /\ NoPipeline
    /\ NoWorkers
    /\ NoScrape
    /\ businesses \in BusinessLists
    /\ driver \in BOOLEAN
    /\ business_idx = 1
    /\ contact_pc = "loop"
    /\ final_results = <<>>
    /\ requests_log = <<>>
    /\ selenium_log = <<>>
    /\ NoDeep
    /\ NoMain
    /\ NoFast
    /\ NoAddress
    /\ NoOrchestrator

NextContact ==
    \/ c_validate
    \/ c_fast
    \/ c_fast_raise
    \/ c_deep
    \/ c_return

SpecContact == InitContact /\ [][NextContact]_vars

\* procesar_negocios on one business whose address passes is_valid_website
InitDeep ==
    /\ NoPipeline
    /\ NoWorkers
    /\ NoScrape
    /\ \E website \in UsableWebsites : businesses = <<Business(website)>>
    /\ driver \in BOOLEAN
    /\ business_idx = 1
    /\ contact_pc = "loop"
    /\ final_results = <<>>
    /\ requests_log = <<>>
    /\ selenium_log = <<>>
    /\ NoDeep
    /\ NoMain
    /\ NoFast
    /\ NoAddress
    /\ NoOrchestrator

NextDeep ==
    \/ c_validate
    \/ c_fast
    \/ c_fast_raise
    \/ d_build
    \/ d_visit
    \/ d_return
    \/ d_record
    \/ c_return

SpecDeep == InitDeep /\ [][NextDeep]_vars

(***************************************************************************)
(* buscar_primer_email_con_requests statement by statement (lines          *)
(* 104-130), called from line 215. contact_pc is at one of:                *)
(*   fast        the call is entered                         (line 106)    *)
(*   fast_parse  the response is in hand                     (line 111)    *)
(***************************************************************************)
MailtoPrefix == <<"m", "a", "i", "l", "t", "o", ":">>

\* a page as BeautifulSoup sees it: its nodes in document order, each an
\* <a> element with its href (NoneValue when it has none) or a run of text
Anchor(href) == [tag |-> "a", href |-> href, text |-> <<>>]

TextNode(text) == [tag |-> "#text", href |-> NoneValue, text |-> text]

MailtoHref == <<"M", "A", "I", "L", "T", "O", ":", "A", "@", "x", ".", "c", "o", "?", "s">>

BadMailtoHref == <<"m", "a", "i", "l", "t", "o", ":", "a", "@", "x">>

PathHref == <<"/", "c">>

Nodes ==
    { Anchor(MailtoHref), Anchor(BadMailtoHref), Anchor(PathHref),
      Anchor(NoneValue),
      TextNode(<<"t", "@", "x", ".", "c", "o">>), TextNode(<<"h", "i", " ">>), TextNode(<<" ", "T", "@", "X", ".", "C", "O">>) }

Documents == UNION {[1..n -> Nodes] : n \in 0..MaxNodes}

\* respuesta.text: the markup of a node and of a page
NodeMarkup(node) ==
    IF node.tag = "a"
    THEN IF node.href = NoneValue THEN <<"<", "a", ">", "<", "/", "a", ">">>
         ELSE <<"<", "a", " ", "h", "r", "e", "f", "=", "'">> \o node.href
                 \o <<"'", ">", "<", "/", "a", ">">>
    ELSE node.text

RECURSIVE Markup(_)
Markup(doc) ==
    IF doc = <<>> THEN <<>>
    ELSE Markup(SubSeq(doc, 1, Len(doc) - 1)) \o NodeMarkup(doc[Len(doc)])

\* line 116: href_lower.split('mailto:', 1)[1].split('?')[0].strip(), for an
\* href that starts with mailto:
MailtoTarget(href_lower) ==
    LET rest == SubSeq(href_lower, Len(MailtoPrefix) + 1, Len(href_lower))
        query == FirstIndex(rest, "?")
    IN  Strip(IF query = 0 THEN rest ELSE SubSeq(rest, 1, query - 1))

\* lines 113-117: the node is an <a> element with an href that starts with
\* mailto:, in any case, and whose target is an email
IsValidMailto(node) ==
    /\ node.tag = "a"
    /\ node.href # NoneValue
    /\ StartsWith(Lower(node.href), MailtoPrefix)
    /\ EmailFullMatch(MailtoTarget(Lower(node.href)))

\* lines 113-119: the targets of those anchors, in document order
MailtoEmails(doc) ==
    LET hits == SelectSeq(doc, IsValidMailto)
    IN  [i \in 1..Len(hits) |-> MailtoTarget(Lower(hits[i].href))]

\* email_de_respuesta with the text of the page searched before the anchors
email_de_respuesta_text_first(doc) ==
    IF extraer_primer_email_valido_de_texto(Markup(doc)) # NoneValue
    THEN extraer_primer_email_valido_de_texto(Markup(doc))
    ELSE IF MailtoEmails(doc) # <<>> THEN MailtoEmails(doc)[1]
    ELSE NoneValue

\* lines 111-127: the value returned for a response that parsed
email_de_respuesta(doc) ==
    IF MailtoEmails(doc) # <<>> THEN MailtoEmails(doc)[1]
    ELSE extraer_primer_email_valido_de_texto(Markup(doc))

\* lines 108-109: the response arrived with a success status
f_get_ok ==
    /\ contact_pc = "fast"
    /\ ~urlparse_raises(CurrentBusiness.website)
    /\ \E doc \in Documents : respuesta' = [received |-> TRUE, doc |-> doc]
    /\ contact_pc' = "fast_parse"
    /\ UNCHANGED <<businesses, driver, business_idx, final_results,
                   requests_log, selenium_log, deepVars, pipeline, csv_file,
                   csv_size_at_start, calls, auto_flushes, workerVars,
                   scrapeVars, mainVars, stageVars>>

\* lines 108-109 and 128-130: session.get or raise_for_status raised a
\* RequestException (timeout, connection error, error status, address that
\* cannot be parsed) and the call returns None
f_get_error ==
    /\ contact_pc = "fast"
    /\ AfterFast(NoneValue)
    /\ UNCHANGED <<businesses, driver, selenium_log, deepVars, pipelineSide>>

\* lines 111-127, then 216-229
f_extract ==
    /\ contact_pc = "fast_parse"
    /\ AfterFast(email_de_respuesta(respuesta.doc))
    /\ UNCHANGED <<businesses, driver, selenium_log, deepVars, pipelineSide>>

\* procesar_negocios on one business whose address passes is_valid_website
InitFast ==
    /\ NoPipeline
    /\ NoWorkers
    /\ NoScrape
    /\ \E website \in UsableWebsites : businesses = <<Business(website)>>
    /\ driver \in BOOLEAN
    /\ business_idx = 1
    /\ contact_pc = "loop"
    /\ final_results = <<>>
    /\ requests_log = <<>>
    /\ selenium_log = <<>>
    /\ NoDeep
    /\ NoMain
    /\ NoFast
    /\ NoAddress
    /\ NoOrchestrator

NextFast ==
    \/ c_validate
    \/ f_get_ok
    \/ f_get_error
    \/ f_extract
    \/ c_fast_raise
    \/ c_deep
    \/ c_return

SpecFast == InitFast /\ [][NextFast]_vars

(***************************************************************************)
(* main of WebsiteContactFinder.py, run from the command line (lines       *)
(* 245-282). main_pc is at one of:                                         *)
(*   start    configurar_driver_selenium                     (line 249)    *)
(*   load     procesar_negocios opens and parses the input   (line 193)    *)
(*   process  procesar_negocios is at its loop or has ended  (line 200)    *)
(*   write    the results are saved                          (line 257)    *)
(*   exited   the process has ended                                        *)
(***************************************************************************)
\* the file at the input path: absent, present but not openable or not
\* decodable as text, present with text that is no JSON, or a JSON list
InputFiles ==
    {[kind |-> k, content |-> <<>>] : k \in {"missing", "unreadable", "malformed"}}
        \cup {[kind |-> "ok", content |-> l] : l \in BusinessLists}

notMain ==
    <<pipeline, csv_file, csv_size_at_start, calls, auto_flushes, workerVars,
      scrapeVars, deepVars, fastVars, stageVars>>

\* line 249: configurar_driver_selenium returns a driver or None
m_configure ==
    /\ main_pc = "start"
    /\ driver' \in BOOLEAN
    /\ main_pc' = "load"
    /\ UNCHANGED <<businesses, business_idx, contact_pc, final_results,
                   requests_log, selenium_log, input_file, output_file,
                   exit_code, notMain>>

\* lines 193-201: FileNotFoundError and JSONDecodeError are caught and []
\* is returned; any other error of open or read (PermissionError,
\* UnicodeDecodeError) is not caught and ends the process with a traceback
m_load ==
    /\ main_pc = "load"
    /\ CASE input_file.kind \in {"missing", "malformed"} ->
               /\ contact_pc' = "returned"
               /\ main_pc' = "process"
               /\ UNCHANGED <<businesses, exit_code>>
         [] input_file.kind = "unreadable" ->
               /\ exit_code' = 1
               /\ main_pc' = "exited"
               /\ UNCHANGED <<businesses, contact_pc>>
         [] input_file.kind = "ok" ->
               /\ businesses' = input_file.content
               /\ contact_pc' = "loop"
               /\ main_pc' = "process"
               /\ UNCHANGED exit_code
    /\ UNCHANGED <<driver, business_idx, final_results, requests_log,
                   selenium_log, input_file, output_file, notMain>>

\* an exception that left procesar_negocios leaves main too: the process
\* ends with a traceback
m_abort ==
    /\ main_pc = "process"
    /\ contact_pc = "raised"
    /\ exit_code' = 1
    /\ main_pc' = "exited"
    /\ UNCHANGED <<contactVars, input_file, output_file, notMain>>

\* lines 251-255
m_quit ==
    /\ main_pc = "process"
    /\ contact_pc = "returned"
    /\ main_pc' = "write"
    /\ UNCHANGED <<contactVars, input_file, output_file, exit_code, notMain>>

\* lines 257-273 and the end of the script: the results are dumped when
\* there are any, an error of the dump is caught and printed, and the
\* script ends without a call of sys.exit
m_write ==
    /\ main_pc = "write"
    /\ IF final_results # <<>>
       THEN \/ output_file' = final_results
            \/ UNCHANGED output_file
       ELSE UNCHANGED output_file
    /\ exit_code' = 0
    /\ main_pc' = "exited"
    /\ UNCHANGED <<contactVars, input_file, notMain>>

InitMain ==
    /\ NoPipeline
    /\ NoWorkers
    /\ NoScrape
    /\ NoDeep
    /\ businesses = <<>>
    /\ driver = FALSE
    /\ business_idx = 1
    /\ contact_pc = "none"
    /\ final_results = <<>>
    /\ requests_log = <<>>
    /\ selenium_log = <<>>
    /\ input_file \in InputFiles
    /\ main_pc = "start"
    /\ output_file = <<>>
    /\ exit_code = -1
    /\ NoFast
    /\ NoAddress
    /\ NoOrchestrator

NextMain ==
    \/ m_configure
    \/ m_load
    \/ c_validate
    \/ c_fast
    \/ c_fast_raise
    \/ c_deep
    \/ c_return
    \/ m_abort
    \/ m_quit
    \/ m_write

SpecMain == InitMain /\ [][NextMain]_vars

(***************************************************************************)
(* Convert_json_to_csv.py: parse_address_details_specific, applied to the  *)
(* addresses of a bounded set (SpecAddress).                               *)
(***************************************************************************)
\* greatest number of comma-separated parts of an address
MaxParts == 4

RECURSIVE Split(_, _)
\* str.split(sep) for a one-character sep: always at least one part
Split(s, sep) ==
    LET i == FirstIndex(s, sep)
    IN  IF i = 0
        THEN <<s>>
        ELSE <<SubSeq(s, 1, i - 1)>> \o Split(SubSeq(s, i + 1, Len(s)), sep)

RECURSIVE Join(_, _)
\* sep.join(parts)
Join(parts, sep) ==
    IF Len(parts) = 0 THEN <<>>
    ELSE IF Len(parts) = 1 THEN parts[1]
    ELSE parts[1] \o <<sep>> \o Join(Tail(parts), sep)

\* the dict parse_address_details_specific returns
AddressDetails(street, unit, city) ==
    [street |-> street, unit |-> unit, city |-> city]

SuitePrefix == <<"s", "u", "i", "t", "e">>

StePrefix == <<"s", "t", "e">>

\* the test on parts[1] with the call to lower() left out
is_unit_case_sensitive(part) ==
    StartsWith(part, SuitePrefix) \/ StartsWith(part, StePrefix)

\* parts[1].lower().startswith("suite") or parts[1].lower().startswith("ste")
is_unit(part) ==
    StartsWith(Lower(part), SuitePrefix) \/ StartsWith(Lower(part), StePrefix)

\* parse_address_details_specific(full_address_str)
parse_address_details_specific(address) ==
    IF ~IsStr(address) \/ address = <<>>
    THEN AddressDetails(<<>>, <<>>, <<>>)
    ELSE LET split == Split(address, ",")
             parts == [i \in 1..Len(split) |-> Strip(split[i])]
         IN  IF Len(parts) = 4 /\ is_unit(parts[2])
             THEN AddressDetails(Strip(parts[1]), Strip(parts[2]),
                                 Strip(parts[3]))
             ELSE IF Len(parts) >= 3
             THEN AddressDetails(Strip(parts[1]), <<>>, Strip(parts[2]))
             ELSE IF Len(parts) = 2
             THEN AddressDetails(Strip(parts[1]), <<>>, Strip(parts[2]))
             ELSE AddressDetails(Strip(parts[1]), <<>>, <<>>)

\* the pieces addresses are made of: a street, units in both cases, a word
\* that only begins like one, a town, and nothing at all
AddressPieces ==
    {<<"1", " ", "M">>, <<" ", "S", "u", "i", "t", "e", " ", "2">>,
     <<" ", "S", "T", "E", "3">>, <<" ", "s", "t">>, <<" ", "C", "y", " ">>,
     <<>>}

\* the addresses a JSON record may carry: no address (null), a value that is
\* no string, and the strings of up to MaxParts pieces joined by commas
Addresses ==
    {NoneValue, NonStrValue}
        \cup {Join(pieces, ",") :
                pieces \in UNION {[1..n -> AddressPieces] : n \in 1..MaxParts}}

\* the call parse_address_details_specific(business.get("direccion", ""))
a_parse ==
    /\ address_details = NotParsed
    /\ address_details' = parse_address_details_specific(full_address_str)
    /\ UNCHANGED <<full_address_str, pipeline, csv_file, csv_size_at_start,
                   calls, auto_flushes, workerVars, scrapeVars, contactVars,
                   deepVars, mainVars, fastVars, orchestratorVars>>

InitAddress ==
    /\ NoPipeline
    /\ NoWorkers
    /\ NoScrape
    /\ NoContact
    /\ NoOrchestrator
    /\ full_address_str \in Addresses
    /\ address_details = NotParsed

NextAddress == a_parse

SpecAddress == InitAddress /\ [][NextAddress]_vars

(***************************************************************************)
(* main_pipeline.py: main runs the three scripts as subprocesses           *)
(* (SpecPipeline).  A file under results/ is "absent", "stale" (left by an *)
(* earlier run with the same search terms, which give the same file        *)
(* names), "damaged" (opened for writing by this run and not completed) or *)
(* "fresh" (written by this run).                                          *)
(***************************************************************************)
YP_CRAWLER_SCRIPT == "YellowPagesCrawler.py"

SCRAP_FROM_JSON_SCRIPT == "WebsiteContactFinder.py"

CONVERT_JSON_TO_CSV_SCRIPT == "Convert_json_to_csv.py"

\* the scripts in the order main names them
Scripts ==
    <<YP_CRAWLER_SCRIPT, SCRAP_FROM_JSON_SCRIPT, CONVERT_JSON_TO_CSV_SCRIPT>>

\* an entry of stages_run: the script started, the state of its input file
\* when it started ("none" for the crawler) and how the script ended
StageRun(script, input, ending) ==
    [script |-> script, input |-> input, ending |-> ending]

\* open(path, "w") followed by a dump that raises: open itself raised and the
\* file is as it was, or the file was truncated and is left incomplete
FailedSave(state) == {state, "damaged"}

\* one subprocess.run: the script ends with an exit status, and run_script
\* returns whether that status was zero (check=True, lines 32-61)
run_script(script, input, ending, status) ==
    /\ stages_run' = Append(stages_run, StageRun(script, input, ending))
    /\ run_ok' = (status = 0)

\* lines 91-92, YellowPagesCrawler.py: Chrome does not start and
\* ejecutar_crawler_yp returns (lines 116-122), or nothing is extracted
\* (lines 200-201), or saving raises and is caught (lines 198-199), or the
\* JSON file is written (lines 193-197); the script has no exit call, so
\* its status is 0 every time
o_crawl ==
    /\ orchestrator_pc = "step1"
    /\ \E ending \in {"no_driver", "nothing", "save_error", "ok"} :
          /\ run_script(YP_CRAWLER_SCRIPT, "none", ending, 0)
          /\ \E written \in
                 (IF ending = "ok" THEN {"fresh"}
                  ELSE IF ending = "save_error"
                  THEN FailedSave(results_dir.step1)
                  ELSE {results_dir.step1}) :
                results_dir' = [results_dir EXCEPT !.step1 = written]
    /\ orchestrator_pc' = "check1"
    /\ UNCHANGED <<pipeline_exit, addressVars, pipeline, csv_file,
                   csv_size_at_start, calls, auto_flushes, workerVars,
                   scrapeVars, contactVars, deepVars, mainVars, fastVars>>

\* lines 98-99, WebsiteContactFinder.py: the input is no JSON and
\* procesar_negocios returns [] (lines 196-198), so nothing is written and
\* the status is 0; or an exception leaves procesar_negocios and the
\* status is 1; or saving raises and is caught (lines 270-271); or the
\* enriched JSON is written (lines 257-260)
o_contact ==
    /\ orchestrator_pc = "step2"
    /\ \E ending \in
           (IF results_dir.step1 = "damaged" THEN {"cannot_read"}
            ELSE {"raised", "save_error", "ok"}) :
          /\ run_script(SCRAP_FROM_JSON_SCRIPT, results_dir.step1, ending,
                        IF ending = "raised" THEN 1 ELSE 0)
          /\ \E written \in
                 (IF ending = "ok" THEN {"fresh"}
                  ELSE IF ending = "save_error"
                  THEN FailedSave(results_dir.step2)
                  ELSE {results_dir.step2}) :
                results_dir' = [results_dir EXCEPT !.step2 = written]
    /\ orchestrator_pc' = "check2"
    /\ UNCHANGED <<pipeline_exit, addressVars, pipeline, csv_file,
                   csv_size_at_start, calls, auto_flushes, workerVars,
                   scrapeVars, contactVars, deepVars, mainVars, fastVars>>

\* lines 105-106, Convert_json_to_csv.py: the input is no JSON and
\* convertir_json_a_csv returns False (lines 43-48), or writing the CSV
\* raises and it returns False (lines 81-83), both ending in sys.exit(1)
\* (lines 96-97); or the CSV is written and the status is 0
o_convert ==
    /\ orchestrator_pc = "step3"
    /\ \E ending \in
           (IF results_dir.step2 = "damaged" THEN {"cannot_read"}
            ELSE {"cannot_write", "ok"}) :
          /\ run_script(CONVERT_JSON_TO_CSV_SCRIPT, results_dir.step2, ending,
                        IF ending = "ok" THEN 0 ELSE 1)
          /\ \E written \in
                 (IF ending = "ok" THEN {"fresh"}
                  ELSE IF ending = "cannot_write"
                  THEN FailedSave(results_dir.step3)
                  ELSE {results_dir.step3}) :
                results_dir' = [results_dir EXCEPT !.step3 = written]
    /\ orchestrator_pc' = "check3"
    /\ UNCHANGED <<pipeline_exit, addressVars, pipeline, csv_file,
                   csv_size_at_start, calls, auto_flushes, workerVars,
                   scrapeVars, contactVars, deepVars, mainVars, fastVars>>

\* the test of lines 92, 99 and 106 on the stage that has just run:
\* "not run_script(...) or not os.path.exists(path)" leads to sys.exit(1);
\* otherwise main goes on, and returns after the third stage
o_check ==
    /\ orchestrator_pc \in {"check1", "check2", "check3"}
    /\ LET k == CHOOSE n \in 1..3 :
                    orchestrator_pc = <<"check1", "check2", "check3">>[n]
           path == <<"step1", "step2", "step3">>[k]
       IN  IF ~run_ok \/ results_dir[path] = "absent"
           THEN /\ pipeline_exit' = 1
                /\ orchestrator_pc' = "exited"
           ELSE IF k = 3
           THEN /\ pipeline_exit' = 0
                /\ orchestrator_pc' = "exited"
           ELSE /\ orchestrator_pc' = <<"step2", "step3">>[k]
                /\ UNCHANGED pipeline_exit
    /\ UNCHANGED <<results_dir, run_ok, stages_run, addressVars, pipeline,
                   csv_file, csv_size_at_start, calls, auto_flushes,
                   workerVars, scrapeVars, contactVars, deepVars, mainVars,
                   fastVars>>

\* main after os.makedirs (line 84): results/ holds what earlier runs with
\* the same search terms left there
InitPipelineRun ==
    /\ NoPipeline
    /\ NoWorkers
    /\ NoScrape
    /\ NoContact
    /\ NoAddress
    /\ orchestrator_pc = "step1"
    /\ results_dir \in [{"step1", "step2", "step3"} -> {"absent", "stale"}]
    /\ run_ok = FALSE
    /\ stages_run = <<>>
    /\ pipeline_exit = -1

NextPipelineRun ==
    \/ o_crawl
    \/ o_contact
    \/ o_convert
    \/ o_check

SpecPipeline == InitPipelineRun /\ [][NextPipelineRun]_vars

(***************************************************************************)
(* What the single caller submitted and what the run appended.             *)
(***************************************************************************)
IsAdd(c) == c.op = "add_data"

\* the records passed to add_data, in call order
Submitted ==
    LET adds == SelectSeq(calls, IsAdd)
    IN  [i \in 1..Len(adds) |-> adds[i].arg]

\* positions of Submitted holding the first record of their name
FirstIdx ==
    {i \in 1..Len(Submitted) :
        \A j \in 1..(i - 1) : Submitted[j].name # Submitted[i].name}

IsDataRow(r) == r # HeaderRow

\* the data rows this run appended to the file
AppendedRows ==
    SelectSeq(SubSeq(csv_file, csv_size_at_start + 1, Len(csv_file)), IsDataRow)

Count(seq, x) == Cardinality({i \in 1..Len(seq) : seq[i] = x})

LastCallIsClose == Len(calls) > 0 /\ calls[Len(calls)] = CallClose

NamesDistinct ==
    \A i, j \in 1..Len(Submitted) :
        i # j => Submitted[i].name # Submitted[j].name

(***************************************************************************)
(* C1: single caller, no write error: no two rows appended by the run      *)
(* carry the same name; a record whose name was submitted before is never  *)
(* enqueued; the row kept for a name is the first record submitted with    *)
(* that name.                                                              *)
(***************************************************************************)
C1_FirstSeenWins ==
    LET rows == AppendedRows
    IN  /\ \A i, j \in 1..Len(rows) : i # j => rows[i][1] # rows[j][1]
        /\ \A i \in 1..Len(rows) :
              \E k \in FirstIdx : rows[i] = Row(Submitted[k])
        /\ \A i \in 1..Len(storage_queue) :
              \E k \in FirstIdx : storage_queue[i] = Submitted[k]
        /\ \A i, j \in 1..Len(storage_queue) :
              i # j => storage_queue[i].name # storage_queue[j].name
        /\ \A i \in 1..Len(storage_queue) : \A j \in 1..Len(rows) :
              storage_queue[i].name # rows[j][1]

\* a name submitted twice with different urls, then close_pipeline: the first
\* record is in the file
C1_Witness ==
    /\ LastCallIsClose
    /\ \E i, j \in 1..Len(Submitted) :
          /\ i < j
          /\ i \in FirstIdx
          /\ Submitted[i].name = Submitted[j].name
          /\ Submitted[i].url # Submitted[j].url
          /\ Row(Submitted[i]) \in Range(AppendedRows)

(***************************************************************************)
(* C2: single caller, no write error: after every call each accepted       *)
(* record is in storage_queue or in the rows the run appended, in exactly  *)
(* one of them and once; when close_pipeline has returned it is in the     *)
(* file.                                                                   *)
(***************************************************************************)
C2_NoRecordLost ==
    /\ \A k \in FirstIdx :
          Count(storage_queue, Submitted[k])
            + Count(AppendedRows, Row(Submitted[k])) = 1
    /\ LastCallIsClose =>
          /\ storage_queue = <<>>
          /\ \A k \in FirstIdx : Count(AppendedRows, Row(Submitted[k])) = 1

\* an automatic flush, then a record left in the queue, then close_pipeline
C2_Witness ==
    /\ LastCallIsClose
    /\ auto_flushes >= 1
    /\ Len(AppendedRows) > auto_flushes * storage_queue_limit
    /\ Cardinality(FirstIdx) < Len(Submitted)

(***************************************************************************)
(* C3: N records with pairwise distinct names and limit K: floor(N/K)      *)
(* automatic flushes happen before close_pipeline, which then flushes the  *)
(* N mod K records left; N rows are persisted in all.                      *)
(***************************************************************************)
C3_FlushCount ==
    LET N == Len(Submitted)
        K == storage_queue_limit
    IN  NamesDistinct =>
          /\ NumCalls("close_pipeline") = 0 =>
                /\ auto_flushes = N \div K
                /\ Len(AppendedRows) = K * (N \div K)
                /\ Len(storage_queue) = N % K
          /\ (NumCalls("close_pipeline") = 1 /\ LastCallIsClose) =>
                /\ auto_flushes = N \div K
                /\ Len(AppendedRows) = N
                /\ storage_queue = <<>>

\* K < N, K does not divide N, and close_pipeline has flushed the remainder
C3_Witness ==
    /\ NamesDistinct
    /\ NumCalls("close_pipeline") = 1
    /\ LastCallIsClose
    /\ 1 < storage_queue_limit
    /\ storage_queue_limit < Len(Submitted)
    /\ Len(Submitted) % storage_queue_limit # 0
    /\ auto_flushes >= 1
    /\ Len(AppendedRows) = Len(Submitted)

(***************************************************************************)
(* C4: a close_pipeline call that directly follows a close_pipeline call   *)
(* changes neither the pipeline's fields nor the file.                     *)
(***************************************************************************)
C4_CloseIdempotent ==
    [][(LastCallIsClose /\ calls' = Append(calls, CallClose))
         => (pipeline' = pipeline /\ csv_file' = csv_file)]_vars

\* two close_pipeline calls in a row, the first of which flushed records
C4_Witness ==
    /\ Len(calls) >= 3
    /\ calls[Len(calls)] = CallClose
    /\ calls[Len(calls) - 1] = CallClose
    /\ IsAdd(calls[Len(calls) - 2])
    /\ Len(AppendedRows) > auto_flushes * storage_queue_limit

(***************************************************************************)
(* C5: under every interleaving of the workers, the membership test of     *)
(* is_duplicate and the insertion into names_seen are one atomic step: of  *)
(* the workers that submit one name only one passes the test, so no name   *)
(* is inserted twice and no two queued records share a name.               *)
(***************************************************************************)
C5_DedupAtomic ==
    /\ \A i, j \in 1..Len(names_seen) : i # j => names_seen[i] # names_seen[j]
    /\ \A i, j \in 1..Len(storage_queue) :
          i # j => storage_queue[i].name # storage_queue[j].name

(***************************************************************************)
(* C6: under every interleaving at most one worker is inside save_to_csv.  *)
(***************************************************************************)
C6_OneFlushAtATime ==
    Cardinality({w \in Workers : InSaveToCsv(w)}) <= 1

(***************************************************************************)
(* C7: once every worker has finished and close_pipeline has returned,     *)
(* every accepted record (every name in names_seen) has a row in the file: *)
(* a record appended while a flush copies and clears the queue is not      *)
(* discarded.                                                              *)
(***************************************************************************)
C7_SnapshotAtomic ==
    (AllFinished /\ LastCallIsClose) =>
        \A i \in 1..Len(names_seen) :
            \E j \in 1..Len(AppendedRows) : AppendedRows[j][1] = names_seen[i]

(***************************************************************************)
(* C8: a write error during a flush does not silently drop the records of  *)
(* that flush: when scrape_search_results has returned normally (no error  *)
(* reached its caller), every accepted record (every name in names_seen)   *)
(* is still in storage_queue or has a row in the file, so a retry of the   *)
(* page gets it persisted.                                                 *)
(***************************************************************************)
C8_FailedFlushKeepsRecords ==
    outcome = "returned" =>
        \A i \in 1..Len(names_seen) :
            \/ \E j \in 1..Len(storage_queue) :
                  storage_queue[j].name = names_seen[i]
            \/ \E j \in 1..Len(AppendedRows) :
                  AppendedRows[j][1] = names_seen[i]

(***************************************************************************)
(* C9: a page whose fetch fails on every attempt is fetched at most        *)
(* retries + 1 times by one scrape_search_results call, and a call that    *)
(* ends without success ends by raising to its caller.                     *)
(***************************************************************************)
C9_BoundedAttempts ==
    /\ fetch_failures = attempts => attempts <= retries + 1
    /\ (scrape_pc = "done" /\ ~success) => outcome = "raised"

(***************************************************************************)
(* C10: a business whose website is absent/null, empty, not a string, a    *)
(* "not found" sentinel or without an http:// or https:// scheme is        *)
(* recorded with method "Ninguno", a null email and no links, and neither  *)
(* the fast fetch nor the deep path is ever run for it.                    *)
(***************************************************************************)
C10_InvalidWebsiteNoNetwork ==
    /\ \A k \in 1..Len(final_results) :
          businesses[k].website \in InvalidWebsites =>
             /\ final_results[k].metodo_extraccion = "Ninguno"
             /\ final_results[k].email_encontrado = NoneValue
             /\ final_results[k].facebook_links_encontrados = <<>>
             /\ \A i \in 1..Len(requests_log) : requests_log[i].idx # k
             /\ \A i \in 1..Len(selenium_log) : selenium_log[i].idx # k
    /\ contact_pc \in {"fast", "deep"} =>
          CurrentBusiness.website \notin InvalidWebsites

\* a business with the crawler's "No encontrado" has been recorded after a
\* business whose site was fetched
C10_Witness ==
    \E k \in 2..Len(final_results) :
        /\ businesses[k].website = NotFoundWebsite
        /\ final_results[k].metodo_extraccion = "Ninguno"
        /\ \E i \in 1..Len(requests_log) : requests_log[i].idx = k - 1

\* indexes of the session.get calls and of the deep-path calls made for the
\* k-th business
RequestsFor(k) == {i \in 1..Len(requests_log) : requests_log[i].idx = k}

DeepCallsFor(k) == {i \in 1..Len(selenium_log) : selenium_log[i].idx = k}

(***************************************************************************)
(* C11: for each business the fast path is attempted at most once and,     *)
(* for a recorded business with a usable address, exactly once; the deep   *)
(* path is entered only after that one attempt, only when it returned no   *)
(* email, and only when a driver is available; a business whose fast path  *)
(* gave an email never reaches the renderer.                               *)
(***************************************************************************)
C11_FastBeforeDeep ==
    /\ \A k \in 1..Len(businesses) :
          /\ Cardinality(RequestsFor(k)) <= 1
          /\ (k <= Len(final_results) /\ is_valid_website(businesses[k].website))
                => Cardinality(RequestsFor(k)) = 1
          /\ DeepCallsFor(k) # {} =>
                /\ driver
                /\ Cardinality(DeepCallsFor(k)) = 1
                /\ RequestsFor(k) # {}
                /\ \A i \in RequestsFor(k) : ~Truthy(requests_log[i].email)
          /\ (k <= Len(final_results)
              /\ final_results[k].metodo_extraccion = "Requests (Email)")
                => DeepCallsFor(k) = {}
    /\ contact_pc = "deep" =>
          /\ driver
          /\ RequestsFor(business_idx) # {}
          /\ \A i \in RequestsFor(business_idx) : ~Truthy(requests_log[i].email)

\* one business was settled by the fast path and another by the deep path,
\* after its fast attempt returned no email
C11_Witness ==
    /\ Len(final_results) = 2
    /\ final_results[1].metodo_extraccion = "Requests (Email)"
    /\ final_results[2].metodo_extraccion = "Selenium (Email)"
    /\ DeepCallsFor(1) = {} /\ DeepCallsFor(2) # {}
    /\ \E i \in RequestsFor(1) : Truthy(requests_log[i].email)

\* a sequence with every repeated element dropped after its first occurrence
RECURSIVE Dedup(_)
Dedup(seq) ==
    IF seq = <<>> THEN <<>>
    ELSE LET front == Dedup(SubSeq(seq, 1, Len(seq) - 1))
             last == seq[Len(seq)]
         IN  IF last \in Range(front) THEN front ELSE Append(front, last)

\* the candidate URLs of a base URL in the order of COMMON_CONTACT_PATHS
ListOrderUrls(base_url) ==
    Dedup([i \in 1..Len(ContactPaths) |->
              urljoin(WithScheme(base_url), ContactPaths[i])])

\* the deep path is inside its loop or has just returned
InDeepCall == contact_pc \in {"deep_for", "deep_returned"}

(***************************************************************************)
(* C12: the deep path visits the candidate URLs of a business in the order *)
(* of COMMON_CONTACT_PATHS, the home page first: the i-th page visited is  *)
(* the i-th candidate of the list.                                         *)
(***************************************************************************)
C12_ListOrderVisits ==
    InDeepCall =>
        \A i \in 1..Len(visits) :
            visits[i].url = ListOrderUrls(CurrentBusiness.website)[i]

\* the visit gave an email: the page rendered and page_source holds one
YieldsEmail(visit) == ~visit.page.error /\ Truthy(visit.page.email)

\* the deep path has been called for the business and has returned
DeepHasReturned ==
    /\ contact_pc \in {"deep_returned", "loop", "returned"}
    /\ DeepCallsFor(1) # {}

VisitedUrls == {visits[i].url : i \in 1..Len(visits)}

(***************************************************************************)
(* C13: the deep path stops at the first email. No page is visited after a *)
(* page that gave an email, and no URL is visited twice; the email         *)
(* returned is the one of that page and the business is recorded with      *)
(* "Selenium (Email)"; when no page gives an email the call returns only   *)
(* after every candidate URL was visited once, and it returns no email.    *)
(***************************************************************************)
C13_StopAtFirstEmail ==
    /\ InDeepCall =>
          /\ \A i \in 1..(Len(visits) - 1) : ~YieldsEmail(visits[i])
          /\ \A i, j \in 1..Len(visits) :
                visits[i].url = visits[j].url => i = j
          /\ VisitedUrls \subseteq CandidateUrls(CurrentBusiness.website)
    /\ DeepHasReturned =>
          IF visits # <<>> /\ YieldsEmail(visits[Len(visits)])
          THEN /\ selenium_results.email = visits[Len(visits)].page.email
               /\ Len(final_results) = 1 =>
                     /\ final_results[1].metodo_extraccion = "Selenium (Email)"
                     /\ final_results[1].email_encontrado
                           = visits[Len(visits)].page.email
          ELSE /\ selenium_results.email = NoneValue
               /\ VisitedUrls = CandidateUrls(businesses[1].website)
               /\ Len(visits) = Cardinality(CandidateUrls(businesses[1].website))
               /\ Len(final_results) = 1 =>
                     final_results[1].metodo_extraccion # "Selenium (Email)"

\* the second page visited gave an email, a candidate was left unvisited and
\* the business was recorded with that email
C13_Witness ==
    /\ DeepHasReturned
    /\ Len(visits) = 2
    /\ YieldsEmail(visits[2])
    /\ urls_a_visitar # {}
    /\ Len(final_results) = 1
    /\ final_results[1].email_encontrado = AnotherEmail

\* the links found on the pages that rendered
RenderedLinks ==
    UNION {visits[i].page.links : i \in {j \in 1..Len(visits) : ~visits[j].page.error}}

(***************************************************************************)
(* C14: when the deep path returns no email, the list of links it returns  *)
(* holds exactly the links found on the pages that rendered, each once,    *)
(* and the business is recorded with "Selenium (FB Links)" and that list   *)
(* if and only if the list is not empty; when it returns an email the      *)
(* business is recorded with no links.                                     *)
(***************************************************************************)
C14_LinksAreUnion ==
    DeepHasReturned =>
        IF Truthy(selenium_results.email)
        THEN Len(final_results) = 1 =>
                final_results[1].facebook_links_encontrados = <<>>
        ELSE /\ Range(selenium_results.facebook_links) = RenderedLinks
             /\ Len(selenium_results.facebook_links) = Cardinality(RenderedLinks)
             /\ Len(final_results) = 1 =>
                   /\ final_results[1].metodo_extraccion = "Selenium (FB Links)"
                         <=> RenderedLinks # {}
                   /\ final_results[1].facebook_links_encontrados
                         = selenium_results.facebook_links

\* three pages rendered without an email, two of them with the same link and
\* one with another, and the business was recorded with the two links
C14_Witness ==
    /\ DeepHasReturned
    /\ Len(visits) = 3
    /\ visits[1].page = Page(NoneValue, {AFacebookLink})
    /\ visits[2].page = Page(NoneValue, {AnotherFacebookLink})
    /\ visits[3].page = Page(NoneValue, {AFacebookLink})
    /\ Len(final_results) = 1
    /\ final_results[1].metodo_extraccion = "Selenium (FB Links)"
    /\ Len(final_results[1].facebook_links_encontrados) = 2

\* a turn of the for loop whose visit raised
FailedVisitStep ==
    /\ Len(visits') = Len(visits) + 1
    /\ visits'[Len(visits')].page.error

(***************************************************************************)
(* C15: a visit that raises gives no data and nothing else: the turn       *)
(* leaves email_final and facebook_links_final as they were and the loop   *)
(* goes on; no exception leaves the call once the loop has begun; and a    *)
(* call with a failed visit and no email still visits every candidate and  *)
(* returns the links of every page that rendered, before and after the     *)
(* failure.                                                                *)
(***************************************************************************)
C15_FailedVisitIsNoData ==
    /\ [][FailedVisitStep =>
             /\ email_final' = email_final
             /\ facebook_links_final' = facebook_links_final
             /\ contact_pc' = "deep_for"
             /\ Cardinality(urls_a_visitar') = Cardinality(urls_a_visitar) - 1]_vars
    /\ [](contact_pc = "raised" => visits = <<>>)
    /\ []((DeepHasReturned /\ ~Truthy(selenium_results.email)) =>
             /\ VisitedUrls = CandidateUrls(businesses[1].website)
             /\ \A i \in 1..Len(visits) :
                   ~visits[i].page.error =>
                      visits[i].page.links
                         \subseteq Range(selenium_results.facebook_links))

\* the second of three visits raised, the first and the third each gave a
\* link, and the call returned both
C15_Witness ==
    /\ DeepHasReturned
    /\ Len(visits) = 3
    /\ visits[1].page = Page(NoneValue, {AFacebookLink})
    /\ visits[2].page = PageError
    /\ visits[3].page = Page(NoneValue, {AnotherFacebookLink})
    /\ Range(selenium_results.facebook_links)
          = {AFacebookLink, AnotherFacebookLink}

\* the input record with only the three result fields added
Enriches(entry, business) ==
    /\ entry.nombre = business.nombre
    /\ entry.website = business.website
    /\ DOMAIN entry = {"nombre", "website", "email_encontrado",
                       "facebook_links_encontrados", "metodo_extraccion"}

(***************************************************************************)
(* C16: procesar_negocios never ends with an exception, whatever the       *)
(* records and whatever fails while one of them is resolved; the records   *)
(* written so far are the enriched input records in input order, and when  *)
(* it returns there is one for every input record.                         *)
(***************************************************************************)
C16_BatchNeverAborts ==
    /\ contact_pc # "raised"
    /\ Len(final_results) <= Len(businesses)
    /\ \A k \in 1..Len(final_results) :
          Enriches(final_results[k], businesses[k])
    /\ contact_pc = "returned" => Len(final_results) = Len(businesses)

(***************************************************************************)
(* C17: the contact finder run from the command line ends with a non-zero  *)
(* exit status when its input file is missing, cannot be read or is no     *)
(* valid JSON, and with status zero when procesar_negocios ran to its end, *)
(* also with no record in the input or no contact found.                   *)
(***************************************************************************)
C17_ExitStatus ==
    main_pc = "exited" =>
        /\ input_file.kind \in {"missing", "unreadable", "malformed"}
              => exit_code # 0
        /\ (input_file.kind = "ok" /\ contact_pc = "returned") => exit_code = 0

\* positions of the file that hold a header row
HeaderPositions == {i \in 1..Len(csv_file) : csv_file[i] = HeaderRow}

(***************************************************************************)
(* C18: in a run that began with the backing file missing or empty, the    *)
(* file never holds more than one header row, and a header row it holds is *)
(* its first row: no flush writes a header into a file that already has    *)
(* rows.                                                                   *)
(***************************************************************************)
C18_HeaderOnce ==
    csv_size_at_start = 0 => HeaderPositions \subseteq {1}

\* the records of a sequence that are the first of their name, in order
RECURSIVE FirstOfName(_)
FirstOfName(seq) ==
    IF seq = <<>> THEN <<>>
    ELSE LET front == SubSeq(seq, 1, Len(seq) - 1)
             last == seq[Len(seq)]
         IN  IF \E j \in 1..Len(front) : front[j].name = last.name
             THEN FirstOfName(front)
             ELSE Append(FirstOfName(front), last)

\* the records add_data accepted, in the order they were passed to it
Accepted == FirstOfName(Submitted)

(***************************************************************************)
(* C19: single caller, no write error: the data rows the run appended,     *)
(* followed by the rows of the records still queued, are the accepted      *)
(* records in the order they were passed to add_data; once close_pipeline  *)
(* has returned the appended data rows alone are that sequence, whatever   *)
(* the number of flushes that wrote them.                                  *)
(***************************************************************************)
C19_ArrivalOrder ==
    /\ AppendedRows \o Rows(storage_queue) = Rows(Accepted)
    /\ LastCallIsClose => AppendedRows = Rows(Accepted)

\* three accepted records and a rejected duplicate, written by one automatic
\* flush of two records and by the flush of close_pipeline
C19_Witness ==
    /\ LastCallIsClose
    /\ storage_queue_limit = 2
    /\ auto_flushes = 1
    /\ Len(Accepted) = 3
    /\ Len(Submitted) = 4
    /\ Len(AppendedRows) = 3

\* the fast path has parsed a response and returned
FastHasReturned == respuesta.received /\ RequestsFor(1) # {}

(***************************************************************************)
(* C20: when the page fetched by the fast path has a mailto: anchor whose  *)
(* target is an email, the value returned is the target of the first such  *)
(* anchor, lowercased, without the mailto: prefix and without a ?query,    *)
(* wherever the page has emails in its text; the text of the page decides  *)
(* the value only when no anchor does.                                     *)
(***************************************************************************)
C20_MailtoBeforeText ==
    FastHasReturned =>
        LET doc == respuesta.doc
            returned == requests_log[1].email
            anchors == {i \in 1..Len(doc) : IsValidMailto(doc[i])}
        IN  IF anchors # {}
            THEN /\ returned = MailtoTarget(Lower(doc[Min(anchors)].href))
                 /\ returned = Lower(returned)
                 /\ "?" \notin Range(returned)
                 /\ ~StartsWith(returned, MailtoPrefix)
                 /\ EmailFullMatch(returned)
            ELSE returned = extraer_primer_email_valido_de_texto(Markup(doc))

\* the page has an email in its text and, after it, the anchor
\* MAILTO:A@x.co?s: the fast path returned a@x.co
C20_Witness ==
    /\ FastHasReturned
    /\ respuesta.doc = <<TextNode(<<"t", "@", "x", ".", "c", "o">>),
                         Anchor(MailtoHref)>>
    /\ requests_log[1].email = <<"a", "@", "x", ".", "c", "o">>
    /\ Len(final_results) = 1
    /\ final_results[1].metodo_extraccion = "Requests (Email)"

(***************************************************************************)
(* C21.  parse_address_details_specific splits an address as its contract  *)
(* states: four parts whose second part starts with "suite" or "ste" in    *)
(* any case give street = part 1, unit = part 2, city = part 3; two or     *)
(* three parts give street = part 1, city = part 2 and an empty unit; one  *)
(* part gives the street only; an absent, empty or non-string address      *)
(* gives three empty fields.                                               *)
(***************************************************************************)
\* the stripped comma-separated parts of an address
AddressParts(address) ==
    LET split == Split(address, ",")
    IN  [i \in 1..Len(split) |-> Strip(split[i])]

C21_AddressContract ==
    address_details # NotParsed =>
        LET parts == AddressParts(full_address_str)
            second == Lower(parts[2])
        IN  IF ~IsStr(full_address_str) \/ full_address_str = <<>>
            THEN address_details = AddressDetails(<<>>, <<>>, <<>>)
            ELSE /\ ( /\ Len(parts) = 4
                      /\ \/ StartsWith(second, SuitePrefix)
                         \/ StartsWith(second, StePrefix) )
                        => address_details
                             = AddressDetails(parts[1], parts[2], parts[3])
                 /\ Len(parts) \in {2, 3}
                        => address_details
                             = AddressDetails(parts[1], <<>>, parts[2])
                 /\ Len(parts) = 1
                        => address_details
                             = AddressDetails(parts[1], <<>>, <<>>)

\* an address of four parts whose second part is an upper-case "STE3" has
\* been parsed, and the unit is that part
C21_Witness ==
    /\ address_details # NotParsed
    /\ IsStr(full_address_str)
    /\ Len(AddressParts(full_address_str)) = 4
    /\ AddressParts(full_address_str)[2] = <<"S", "T", "E", "3">>
    /\ address_details.unit = <<"S", "T", "E", "3">>
    /\ address_details.street = <<"1", " ", "M">>
    /\ address_details.city = <<"C", "y">>

(***************************************************************************)
(* C22.  The batch queue is bounded by the configured capacity: after any  *)
(* add_data call has returned, storage_queue holds fewer than              *)
(* storage_queue_limit records, also when an earlier flush failed.         *)
(***************************************************************************)
C22_QueueBelowLimit ==
    (calls # <<>> /\ IsAdd(calls[Len(calls)]))
        => Len(storage_queue) < storage_queue_limit

(***************************************************************************)
(* C23.  close_pipeline terminates and leaves the queue empty: once it has *)
(* returned, with the flush-in-progress flag set or not when it was        *)
(* called, storage_queue is empty and every record add_data accepted has a *)
(* row in the file.                                                        *)
(***************************************************************************)
\* close_pipeline was the last call made on the pipeline and it returned
CloseHasReturned == LastCallIsClose /\ outcome = "returned"

C23_CloseLeavesAllStored ==
    CloseHasReturned =>
        /\ storage_queue = <<>>
        /\ \A i \in 1..Len(names_seen) :
              \E j \in 1..Len(AppendedRows) :
                  AppendedRows[j][1] = names_seen[i]

(***************************************************************************)
(* C24.  A flush is all-or-nothing: when save_to_csv fails while it writes *)
(* its snapshot, none of the rows of that flush stays in the file: the     *)
(* data rows of the file are those it held before the flush.               *)
(***************************************************************************)
C24_FlushAllOrNothing ==
    [][write_errors' > write_errors => AppendedRows' = AppendedRows]_vars

(***************************************************************************)
(* C25.  Every record procesar_negocios produces is consistent: method     *)
(* "Ninguno" goes with a null email and no links; "Requests (Email)" and   *)
(* "Selenium (Email)" go with an email and no links; "Selenium (FB Links)" *)
(* goes with a null email and at least one link; and a "Selenium" method   *)
(* is recorded only when a driver was available and the fast path of that  *)
(* business found no email.                                                *)
(***************************************************************************)
C25_RecordConsistent ==
    \A k \in 1..Len(final_results) :
        LET entry == final_results[k]
            method == entry.metodo_extraccion
        IN  /\ method \in {"Ninguno", "Requests (Email)", "Selenium (Email)",
                           "Selenium (FB Links)"}
            /\ method = "Ninguno" =>
                  /\ entry.email_encontrado = NoneValue
                  /\ entry.facebook_links_encontrados = <<>>
            /\ method \in {"Requests (Email)", "Selenium (Email)"} =>
                  /\ Truthy(entry.email_encontrado)
                  /\ entry.facebook_links_encontrados = <<>>
            /\ method = "Selenium (FB Links)" =>
                  /\ entry.email_encontrado = NoneValue
                  /\ entry.facebook_links_encontrados # <<>>
            /\ method \in {"Selenium (Email)", "Selenium (FB Links)"} =>
                  /\ driver
                  /\ \E i \in 1..Len(requests_log) :
                        /\ requests_log[i].idx = k
                        /\ ~Truthy(requests_log[i].email)

\* two businesses recorded after a deep-path call each: one by the email it
\* returned and one by its links alone
C25_Witness ==
    /\ Len(final_results) = 2
    /\ final_results[1].metodo_extraccion = "Selenium (Email)"
    /\ final_results[2].metodo_extraccion = "Selenium (FB Links)"
    /\ selenium_results.facebook_links # <<>>
    /\ \E i \in 1..Len(selenium_log) : selenium_log[i].idx = 1

(***************************************************************************)
(* C26.  The orchestrator starts the scripts in the order crawl, contact   *)
(* finder, conversion; a stage that ends in a stage-level error (the crawl *)
(* cannot start its browser or extracts nothing, the contact finder cannot *)
(* read its input, the conversion cannot read or write) is the last one    *)
(* started and the pipeline then exits non-zero; and no stage is started   *)
(* on an input file that the stage before it did not write in this run.    *)
(***************************************************************************)
\* the endings the claim counts as stage-level errors
StageErrors == {"no_driver", "nothing", "cannot_read", "cannot_write"}

C26_StagesAbortOnError ==
    \A k \in 1..Len(stages_run) :
        /\ k <= 3
        /\ stages_run[k].script = Scripts[k]
        /\ stages_run[k].input # "stale"
        /\ stages_run[k].ending \in StageErrors =>
              /\ k = Len(stages_run)
              /\ orchestrator_pc = "exited" => pipeline_exit = 1

(***************************************************************************)
(* C27.  In the retry loop of scrape_search_results every attempt uses a   *)
(* fresh browser session that is released on every exit path: at most one *)
(* driver is alive at a time, no driver is alive when the loop test is     *)
(* reached again, and none is alive once the function has returned or      *)
(* raised.                                                                 *)
(***************************************************************************)
C27_DriverReleased ==
    /\ drivers <= 1
    /\ scrape_pc \in {"while", "after_loop", "done"} => drivers = 0

(***************************************************************************)
(* C28.  Submitting a duplicate changes nothing: an add_data call whose    *)
(* record name is already in names_seen returns and leaves names_seen,     *)
(* storage_queue, csv_file_open and the file as they were, and makes no    *)
(* call of save_to_csv.                                                    *)
(***************************************************************************)
\* the step is an add_data call with a record whose name is in names_seen
DuplicateAddStep ==
    \E d \in Inputs :
        /\ calls' = Append(calls, CallAdd(d))
        /\ d.name \in Range(names_seen)

C28_DuplicateChangesNothing ==
    [][DuplicateAddStep =>
          /\ names_seen' = names_seen
          /\ storage_queue' = storage_queue
          /\ csv_file_open' = csv_file_open
          /\ csv_file' = csv_file
          /\ auto_flushes' = auto_flushes]_vars

\* the last call was an add_data of a name submitted before, made while a
\* record was queued and after an automatic flush
C28_Witness ==
    /\ Len(calls) > 1
    /\ IsAdd(calls[Len(calls)])
    /\ \E i \in 1..(Len(calls) - 1) :
          /\ IsAdd(calls[i])
          /\ calls[i].arg.name = calls[Len(calls)].arg.name
    /\ storage_queue # <<>>
    /\ auto_flushes >= 1

(***************************************************************************)
(* C29.  The flush-in-progress flag tracks the flush exactly: once a       *)
(* save_to_csv call has ended, by returning or by raising, csv_file_open   *)
(* is False again, so between two calls on the pipeline the flag is never  *)
(* set.                                                                    *)
(***************************************************************************)
C29_FlagClearedAfterFlush == csv_file_open = FALSE

====
